---- MODULE Spec2Model ----
(***************************************************************************)
(* Model of src/app.py, the Drishti UPSC mock-interview Streamlit script.  *)
(*                                                                         *)
(* One action of the model is one run of the script: Streamlit re-runs the *)
(* whole file on every operator interaction, with at most one button true. *)
(* The session_state fields are the variables; the two external services  *)
(* answer with values drawn from small sets.                               *)
(*                                                                         *)
(* Text is a sequence of tokens.  A token is one character of the source   *)
(* text that matters to the code ("{", "}", a backtick, a blank, ":"), one *)
(* prose word, or one JSON string literal.  Python values are records      *)
(* tagged with their type in field k, so that any two compare.             *)
(***************************************************************************)
EXTENDS Integers, Sequences, FiniteSets, TLC

(***************************************************************************)
(* Python / JSON values                                                    *)
(***************************************************************************)
PyNone == [k |-> "None"]
PyStr(s) == [k |-> "str", s |-> s]
PyList(e) == [k |-> "list", e |-> e]
PyDict(f) == [k |-> "dict", f |-> f]

EmptyMap == [x \in {} |-> PyNone]
EmptyDict == PyDict(EmptyMap)

IsDict(v) == v.k = "dict"
IsStr(v) == v.k = "str"

\* bool(v) as Python computes it for the values above
Truthy(v) ==
  CASE v.k = "None" -> FALSE
    [] v.k = "str" -> Len(v.s) > 0
    [] v.k = "list" -> Len(v.e) > 0
    [] v.k = "dict" -> DOMAIN v.f # {}
    [] OTHER -> TRUE

\* d.get(key, default) on a dict d
DictGet(d, key, default) == IF key \in DOMAIN d.f THEN d.f[key] ELSE default

\* d[key] = val on a dict d
DictSet(d, key, val) ==
  PyDict([x \in DOMAIN d.f \cup {key} |-> IF x = key THEN val ELSE d.f[x]])

(***************************************************************************)
(* Text: tokens and the str methods the script uses                        *)
(***************************************************************************)
WS == " "
TICK == "bt"
LBRACE == "{"
RBRACE == "}"
WORD == "w"

\* the strings that occur inside JSON text, and their literal tokens
Strings == {"", "A", "R", "name", "roll_no", "edu"}
Lit(s) ==
  CASE s = "" -> "''"
    [] s = "A" -> "'A'"
    [] s = "R" -> "'R'"
    [] s = "name" -> "'name'"
    [] s = "roll_no" -> "'roll_no'"
    [] s = "edu" -> "'edu'"
LitTokens == {Lit(s) : s \in Strings}
Unlit(t) == CHOOSE s \in Strings : Lit(s) = t

RECURSIVE LStrip(_, _)
LStrip(s, cs) == IF s # <<>> /\ Head(s) \in cs THEN LStrip(Tail(s), cs) ELSE s

RECURSIVE RStrip(_, _)
RStrip(s, cs) ==
  IF s # <<>> /\ s[Len(s)] \in cs THEN RStrip(SubSeq(s, 1, Len(s) - 1), cs) ELSE s

\* s.strip() and s.strip of backticks
Strip(s, cs) == RStrip(LStrip(s, cs), cs)

\* s.startswith of three backticks
StartsWithFence(s) == Len(s) >= 3 /\ s[1] = TICK /\ s[2] = TICK /\ s[3] = TICK

\* s.find(c) and s.rfind(c), 1-based, 0 for Python's -1
Find(s, c) ==
  IF \E i \in 1..Len(s) : s[i] = c
  THEN CHOOSE i \in 1..Len(s) : s[i] = c /\ \A j \in 1..(i - 1) : s[j] # c
  ELSE 0
RFind(s, c) ==
  IF \E i \in 1..Len(s) : s[i] = c
  THEN CHOOSE i \in 1..Len(s) : s[i] = c /\ \A j \in (i + 1)..Len(s) : s[j] # c
  ELSE 0

(***************************************************************************)
(* json.loads: a recursive-descent parser over the tokens.  A result is    *)
(* [ok, v, n]: whether a value was read, the value, the next position.     *)
(***************************************************************************)
Fail == [ok |-> FALSE, v |-> PyNone, n |-> 0]
Got(v, n) == [ok |-> TRUE, v |-> v, n |-> n]

RECURSIVE SkipWs(_, _)
SkipWs(s, i) == IF i <= Len(s) /\ s[i] = WS THEN SkipWs(s, i + 1) ELSE i

At(s, i) == IF i <= Len(s) THEN s[i] ELSE "EOF"

RECURSIVE ParseValue(_, _)
RECURSIVE ParseMembers(_, _, _)
RECURSIVE ParseElems(_, _, _)

\* after "{" or ",": "key" : value, then "," or "}"; a repeated key keeps the last
ParseMembers(s, i, d) ==
  LET a == SkipWs(s, i)
  IN IF At(s, a) \notin LitTokens THEN Fail
     ELSE LET c == SkipWs(s, a + 1)
          IN IF At(s, c) # ":" THEN Fail
             ELSE LET r == ParseValue(s, SkipWs(s, c + 1))
                  IN IF ~r.ok THEN Fail
                     ELSE LET e == SkipWs(s, r.n)
                              d2 == DictSet(d, Unlit(s[a]), r.v)
                          IN CASE At(s, e) = "," -> ParseMembers(s, e + 1, d2)
                               [] At(s, e) = RBRACE -> Got(d2, e + 1)
                               [] OTHER -> Fail

\* after "[" or ",": value, then "," or "]"
ParseElems(s, i, l) ==
  LET r == ParseValue(s, SkipWs(s, i))
  IN IF ~r.ok THEN Fail
     ELSE LET e == SkipWs(s, r.n)
              l2 == PyList(Append(l.e, r.v))
          IN CASE At(s, e) = "," -> ParseElems(s, e + 1, l2)
               [] At(s, e) = "]" -> Got(l2, e + 1)
               [] OTHER -> Fail

ParseValue(s, i) ==
  LET t == At(s, i)
  IN CASE t \in LitTokens -> Got(PyStr(Unlit(t)), i + 1)
       [] t = "null" -> Got(PyNone, i + 1)
       [] t = LBRACE ->
            IF At(s, SkipWs(s, i + 1)) = RBRACE
            THEN Got(EmptyDict, SkipWs(s, i + 1) + 1)
            ELSE ParseMembers(s, i + 1, EmptyDict)
       [] t = "[" ->
            IF At(s, SkipWs(s, i + 1)) = "]"
            THEN Got(PyList(<<>>), SkipWs(s, i + 1) + 1)
            ELSE ParseElems(s, i + 1, PyList(<<>>))
       [] OTHER -> Fail

\* json.loads(s): one value with blanks around it and nothing else; a result
\* that is not ok stands for json.JSONDecodeError
JsonLoads(s) ==
  LET r == ParseValue(s, SkipWs(s, 1))
  IN IF r.ok /\ SkipWs(s, r.n) = Len(s) + 1 THEN r ELSE Fail

(***************************************************************************)
(* json.dumps(v): Python's default separators ", " and ": ".  A dict is    *)
(* written in the fixed key order KeyOrder (Python writes insertion order; *)
(* dict equality does not depend on it).                                   *)
(***************************************************************************)
KeyOrder == <<"name", "roll_no", "edu">>

RECURSIVE JsonDumps(_)
RECURSIVE DumpKeys(_, _, _)
RECURSIVE DumpElems(_, _)

DumpKeys(d, i, first) ==
  IF i > Len(KeyOrder) THEN <<>>
  ELSE IF KeyOrder[i] \notin DOMAIN d.f THEN DumpKeys(d, i + 1, first)
  ELSE (IF first THEN <<>> ELSE <<",", WS>>)
         \o <<Lit(KeyOrder[i]), ":", WS>> \o JsonDumps(d.f[KeyOrder[i]])
         \o DumpKeys(d, i + 1, FALSE)

DumpElems(l, i) ==
  IF i > Len(l) THEN <<>>
  ELSE (IF i = 1 THEN <<>> ELSE <<",", WS>>) \o JsonDumps(l[i]) \o DumpElems(l, i + 1)

JsonDumps(v) ==
  CASE v.k = "None" -> <<"null">>
    [] v.k = "str" -> <<Lit(v.s)>>
    [] v.k = "list" -> <<"[">> \o DumpElems(v.e, 1) \o <<"]">>
    [] v.k = "dict" -> <<LBRACE>> \o DumpKeys(v, 1, TRUE) \o <<RBRACE>>

(***************************************************************************)
(* _safe_json_extract                                                      *)
(***************************************************************************)
\* SafeJsonExtract cutting at the first closing brace instead of the last
SafeJsonExtractFirstClose(txt) ==
  LET s0 == Strip(txt, {WS})
      s1 == IF StartsWithFence(s0) THEN Strip(s0, {TICK}) ELSE s0
      i == Find(s1, LBRACE)
      j == Find(s1, RBRACE)
      s2 == IF i # 0 /\ j # 0 /\ j > i THEN SubSeq(s1, i, j) ELSE s1
  IN JsonLoads(s2)

SafeJsonExtract(txt) ==
  LET s0 == Strip(txt, {WS})
      s1 == IF StartsWithFence(s0) THEN Strip(s0, {TICK}) ELSE s0
      i == Find(s1, LBRACE)
      j == RFind(s1, RBRACE)
      s2 == IF i # 0 /\ j # 0 /\ j > i THEN SubSeq(s1, i, j) ELSE s1
  IN JsonLoads(s2)

\* json.dumps(v, indent=2): an empty container is written closed, a non-empty
\* one with a line break (a blank token) after the opener, between the items
\* and before the closer
RECURSIVE JsonDumpsIndent(_)
RECURSIVE DumpKeysIndent(_, _, _)
RECURSIVE DumpElemsIndent(_, _)

DumpKeysIndent(d, i, first) ==
  IF i > Len(KeyOrder) THEN <<>>
  ELSE IF KeyOrder[i] \notin DOMAIN d.f THEN DumpKeysIndent(d, i + 1, first)
  ELSE (IF first THEN <<WS>> ELSE <<",", WS>>)
         \o <<Lit(KeyOrder[i]), ":", WS>> \o JsonDumpsIndent(d.f[KeyOrder[i]])
         \o DumpKeysIndent(d, i + 1, FALSE)

DumpElemsIndent(l, i) ==
  IF i > Len(l) THEN <<>>
  ELSE (IF i = 1 THEN <<WS>> ELSE <<",", WS>>)
         \o JsonDumpsIndent(l[i]) \o DumpElemsIndent(l, i + 1)

JsonDumpsIndent(v) ==
  CASE v.k = "None" -> <<"null">>
    [] v.k = "str" -> <<Lit(v.s)>>
    [] v.k = "list" ->
         IF Len(v.e) = 0 THEN <<"[", "]">>
         ELSE <<"[">> \o DumpElemsIndent(v.e, 1) \o <<WS, "]">>
    [] v.k = "dict" ->
         IF DOMAIN v.f = {} THEN <<LBRACE, RBRACE>>
         ELSE <<LBRACE>> \o DumpKeysIndent(v, 1, TRUE) \o <<WS, RBRACE>>

(***************************************************************************)
(* Step 1: gemini_extract_candidate_json.  The upstream answer is          *)
(* [exc, text]: generate_content (or resp.text) raised, or the text.       *)
(* A result is [ok, v, err].                                               *)
(***************************************************************************)
Raised(e) == [ok |-> FALSE, v |-> PyNone, err |-> e]
Returned(v) == [ok |-> TRUE, v |-> v, err |-> "none"]

\* resp.text or "{}"
TextOrEmptyObject(text) == IF Len(text) > 0 THEN text ELSE <<LBRACE, RBRACE>>

\* FillRollNo filling only a roll_no that is absent, not one that is falsy
FillRollNoAbsentOnly(data, reg) ==
  IF "roll_no" \notin DOMAIN data.f
  THEN DictSet(data, "roll_no", PyStr(reg))
  ELSE data

\* FillRollNo without the fallback
FillRollNoNever(data, reg) == data

\* if not data.get("roll_no"): data["roll_no"]=reg_no
FillRollNo(data, reg) ==
  IF ~Truthy(DictGet(data, "roll_no", PyNone))
  THEN DictSet(data, "roll_no", PyStr(reg))
  ELSE data

\* gemini_extract_candidate_json answering the empty object for a text it
\* cannot parse
gemini_extract_lenient(resp, reg) ==
  IF resp.exc THEN Raised("upstream")
  ELSE LET r == SafeJsonExtract(TextOrEmptyObject(resp.text))
       IN IF ~r.ok \/ ~IsDict(r.v) THEN Returned(FillRollNo(EmptyDict, reg))
          ELSE Returned(FillRollNo(r.v, reg))

gemini_extract_candidate_json(resp, reg) ==
  IF resp.exc THEN Raised("upstream")
  ELSE LET r == SafeJsonExtract(TextOrEmptyObject(resp.text))
       IN IF ~r.ok THEN Raised("JSONDecodeError")
          ELSE IF ~IsDict(r.v) THEN Raised("AttributeError")
          ELSE Returned(FillRollNo(r.v, reg))

(***************************************************************************)
(* Step 3: the prompt.  str.format writes str(value) for each field; the   *)
(* fixed template text is one token per stretch between the fields.        *)
(***************************************************************************)
\* str(v) inside the formatted text
FormatStr(v) ==
  CASE v.k = "str" -> v.s
    [] v.k = "None" -> "None"
    [] OTHER -> "repr"

\* lines 154-155: a truthy value that is no dict has no .get
RenderCrashes(cj) == Truthy(cj) /\ ~IsDict(cj)

\* lines 154-157
prompt_seed(cj, reg) ==
  IF Truthy(cj)
  THEN [name |-> DictGet(cj, "name", PyStr("Candidate")),
        roll_no |-> DictGet(cj, "roll_no", PyStr(reg)),
        interviewee_json |-> JsonDumpsIndent(cj)]
  ELSE [name |-> PyStr("Candidate"),
        roll_no |-> PyStr(reg),
        interviewee_json |-> JsonDumpsIndent(EmptyDict)]

\* FULL_PROMPT_TEMPLATE.format(**seed)
FormatPrompt(seed) ==
  <<"[Identity] ... for candidate", FormatStr(seed.name), "(Roll No:",
    FormatStr(seed.roll_no), ") ... [Interviewee JSON]">>
    \o seed.interviewee_json

\* line 163
cname_default(cj) ==
  LET n == DictGet(IF Truthy(cj) THEN cj ELSE EmptyDict, "name", PyNone)
  IN IF Truthy(n) THEN n ELSE PyStr("Candidate")

(***************************************************************************)
(* Step 4: create_vapi_assistant.  The platform's answer to POST           *)
(* /assistant is [exc, status, body]; a body is [json, id, text]: whether  *)
(* it parses as a JSON object, the id field of that object (None when it   *)
(* has none), and the raw text.  An answer below 300 whose body is no JSON *)
(* is not the platform's: no agent was created.                            *)
(***************************************************************************)
AgentId(n) == PyStr(<<"asst", n>>)

\* create_vapi_assistant with > 300 for >= 300
create_vapi_assistant_gt(resp) ==
  IF resp.exc THEN Raised(<<"ConnectionError">>)
  ELSE IF resp.status > 300
       THEN Raised(<<"Assistant create failed:", resp.status, resp.body.text>>)
  ELSE IF ~resp.body.json THEN Raised(<<"JSONDecodeError">>)
  ELSE Returned(resp.body.id)

create_vapi_assistant(resp) ==
  IF resp.exc THEN Raised(<<"ConnectionError">>)
  ELSE IF resp.status >= 300
       THEN Raised(<<"Assistant create failed:", resp.status, resp.body.text>>)
  ELSE IF ~resp.body.json THEN Raised(<<"JSONDecodeError">>)
  ELSE Returned(resp.body.id)

\* RollKey taking the registration number whatever the record holds
RollKeyRegNoOnly(cj, reg) == IF reg # "" THEN PyStr(reg) ELSE PyStr("NA")

\* RollKey without the last resort of line 186
RollKeyNoDefault(cj, reg) ==
  LET d == IF Truthy(cj) THEN cj ELSE EmptyDict
      r == DictGet(d, "roll_no", PyNone)
  IN IF Truthy(r) THEN r ELSE PyStr(reg)

\* line 186
RollKey(cj, reg) ==
  LET d == IF Truthy(cj) THEN cj ELSE EmptyDict
      r == DictGet(d, "roll_no", PyNone)
  IN IF Truthy(r) THEN r ELSE IF reg # "" THEN PyStr(reg) ELSE PyStr("NA")

\* line 189: the AgentRecord
AgentRecord(a_id, cj) ==
  LET d == IF Truthy(cj) THEN cj ELSE EmptyDict
  IN [assistant_id |-> a_id,
      candidate_json |-> d,
      name |-> DictGet(d, "name", cname_default(cj))]

(***************************************************************************)
(* Step 6: the calls.  A timestamp is a string, modelled as the sequence   *)
(* of its character codes, compared as Python compares str.  A call is a   *)
(* record of its fields; a field the JSON object lacks is Missing.         *)
(***************************************************************************)
Missing == [k |-> "missing"]

\* c.get(field)
CallGet(c, field) == IF c[field] = Missing THEN PyNone ELSE c[field]

\* a < b on str
RECURSIVE StrLess(_, _)
StrLess(a, b) ==
  IF Len(b) = 0 THEN FALSE
  ELSE IF Len(a) = 0 THEN TRUE
  ELSE IF Head(a) < Head(b) THEN TRUE
  ELSE IF Head(a) > Head(b) THEN FALSE
  ELSE StrLess(Tail(a), Tail(b))

\* a >= b on str
StrGeq(a, b) == ~StrLess(a, b)

\* the default of line 947, "1970-01-01T00:00:00Z"
Epoch == <<1>>

\* list_calls: the answer to GET /call is [exc, status, body]; a body is
\* [shape, items]: a bare list, an object with "items", no JSON at all
\* ("invalid"), or any other JSON value
list_calls(resp) ==
  IF resp.exc THEN Raised(<<"ConnectionError">>)
  ELSE IF resp.status >= 300
       THEN Raised(<<"List Calls failed:", resp.status>>)
  ELSE IF resp.body.shape = "invalid" THEN Raised(<<"JSONDecodeError">>)
  ELSE IF resp.body.shape \in {"items", "list"} THEN Returned(resp.body.items)
  ELSE Returned(<<>>)

\* after_start with > for >=
after_start_strict(c, started_after_iso) ==
  LET v == CallGet(c, "startedAt")
  IN IF ~Truthy(v) THEN FALSE
     ELSE IF ~IsStr(v) THEN TRUE
     ELSE StrLess(started_after_iso, v.s)

\* after_start letting a call without startedAt through
after_start_unstamped(c, started_after_iso) ==
  LET v == CallGet(c, "startedAt")
  IN IF ~Truthy(v) THEN TRUE
     ELSE IF ~IsStr(v) THEN TRUE
     ELSE StrGeq(v.s, started_after_iso)

\* lines 912-916; the comparison raises only for a truthy startedAt that is
\* no str, and the handler then answers True
after_start(c, started_after_iso) ==
  LET v == CallGet(c, "startedAt")
  IN IF ~Truthy(v) THEN FALSE
     ELSE IF ~IsStr(v) THEN TRUE
     ELSE StrGeq(v.s, started_after_iso)

\* Retained asking for a call that has ended
RetainedEnded(c, assistant_id, started_after_iso) ==
  /\ CallGet(c, "assistantId") = assistant_id
  /\ after_start(c, started_after_iso)
  /\ Truthy(CallGet(c, "endedAt"))

\* line 917
Retained(c, assistant_id, started_after_iso) ==
  CallGet(c, "assistantId") = assistant_id /\ after_start(c, started_after_iso)

RECURSIVE Filter(_, _, _)
Filter(items, assistant_id, started_after_iso) ==
  IF items = <<>> THEN <<>>
  ELSE (IF Retained(Head(items), assistant_id, started_after_iso)
        THEN <<Head(items)>> ELSE <<>>)
       \o Filter(Tail(items), assistant_id, started_after_iso)

\* the sort key of line 918
RecencyKey(c) ==
  IF Truthy(CallGet(c, "endedAt")) THEN CallGet(c, "endedAt").s
  ELSE IF Truthy(CallGet(c, "updatedAt")) THEN CallGet(c, "updatedAt").s
  ELSE IF Truthy(CallGet(c, "createdAt")) THEN CallGet(c, "createdAt").s
  ELSE <<>>

\* InsertDesc placing an item before the items whose key equals its own
RECURSIVE InsertDescUnstable(_, _)
InsertDescUnstable(sorted, c) ==
  IF sorted = <<>> THEN <<c>>
  ELSE IF StrLess(RecencyKey(c), RecencyKey(Head(sorted)))
       THEN <<Head(sorted)>> \o InsertDescUnstable(Tail(sorted), c)
       ELSE <<c>> \o sorted

\* sorted(..., reverse=True) is stable: an item goes after the items already
\* placed whose key is >= its own
RECURSIVE InsertDesc(_, _)
InsertDesc(sorted, c) ==
  IF sorted = <<>> THEN <<c>>
  ELSE IF StrGeq(RecencyKey(Head(sorted)), RecencyKey(c))
       THEN <<Head(sorted)>> \o InsertDesc(Tail(sorted), c)
       ELSE <<c>> \o sorted

RECURSIVE SortedDesc(_, _)
SortedDesc(items, acc) ==
  IF items = <<>> THEN acc
  ELSE SortedDesc(Tail(items), InsertDesc(acc, Head(items)))

\* the {} of line 919
NoCall == [k |-> "dict", f |-> EmptyMap]

\* get_latest_call_for_assistant without the fallback of lines 910-911
get_latest_no_fallback(filtered, unfiltered, assistant_id, started_after_iso) ==
  LET got == list_calls(filtered)
  IN IF ~got.ok
     THEN [ok |-> FALSE, v |-> NoCall, err |-> got.err, reqs |-> <<"list_filtered">>,
           filtered |-> <<>>]
     ELSE LET f == SortedDesc(Filter(got.v, assistant_id, started_after_iso), <<>>)
          IN [ok |-> TRUE, v |-> IF f # <<>> THEN f[1] ELSE NoCall,
              err |-> "none", reqs |-> <<"list_filtered">>, filtered |-> f]

\* get_latest_call_for_assistant: the filtered request, on any exception the
\* unfiltered one; the result also names the requests made and holds the
\* local list filtered of line 918
get_latest_call_for_assistant(filtered, unfiltered, assistant_id, started_after_iso) ==
  LET first == list_calls(filtered)
      second == list_calls(unfiltered)
      reqs == IF first.ok THEN <<"list_filtered">>
              ELSE <<"list_filtered", "list_unfiltered">>
      got == IF first.ok THEN first ELSE second
  IN IF ~got.ok
     THEN [ok |-> FALSE, v |-> NoCall, err |-> got.err, reqs |-> reqs,
           filtered |-> <<>>]
     ELSE LET f == SortedDesc(Filter(got.v, assistant_id, started_after_iso), <<>>)
          IN [ok |-> TRUE, v |-> IF f # <<>> THEN f[1] ELSE NoCall,
              err |-> "none", reqs |-> reqs, filtered |-> f]

(***************************************************************************)
(* State.  The session_state fields of lines 26-32, the widgets that keep  *)
(* their value between runs, the agents the platform has created, and what *)
(* the last run showed and sent.  Lines 19-21 read the API keys from the   *)
(* environment in every run: whether a key is set is an input of the run.  *)
(***************************************************************************)
VARIABLES
  candidate_json,        \* None, or what extraction or the edited JSON gave
  rendered_prompt,       \* the text of line 158
  assistants,            \* roll number -> AgentRecord
  current_candidate,     \* None or a roll number
  interview_started_at,  \* None or a timestamp
  interview_status,      \* "idle", "starting", "active", "completed", "error"
  reg_no,                \* the text input of line 51
  auto,                  \* the checkbox of line 889
  remote_agents,         \* how many agents the platform has created
  ui,                    \* what the last run displayed
  net,                   \* the requests the last run sent, in order
  fn_in,                 \* the arguments of a function under test
  fn_out                 \* its result

session == <<candidate_json, rendered_prompt, assistants, current_candidate,
             interview_started_at, interview_status>>
widgets == <<reg_no, auto>>
harness == <<fn_in, fn_out>>
vars == <<session, widgets, remote_agents, ui, net, harness>>

(***************************************************************************)
(* Bounds and the values the operator and the two services supply          *)
(***************************************************************************)
MaxAgents == 2

RegNos == {"", "R"}

Obj1(k1, v1) == PyDict([x \in {k1} |-> v1])
Obj2(k1, v1, k2, v2) == PyDict([x \in {k1, k2} |-> IF x = k1 THEN v1 ELSE v2])

Fence == <<TICK, TICK, TICK>>

\* what the document service answers in the session
MainTexts ==
  { <<>>,
    <<WS>>,
    <<WORD>>,
    <<RBRACE, WORD, LBRACE>>,
    <<LBRACE, WORD, RBRACE>>,
    <<"[", "]">>,
    Fence \o <<WORD, WS>> \o JsonDumps(Obj2("name", PyStr("A"), "roll_no", PyStr("A")))
      \o <<WS>> \o Fence,
    <<WORD, WS>> \o JsonDumps(Obj1("name", PyStr("A"))),
    JsonDumps(Obj1("roll_no", PyStr(""))) }
GeminiAnswers ==
  {[exc |-> TRUE, text |-> <<>>]} \cup {[exc |-> FALSE, text |-> t] : t \in MainTexts}

\* what the operator leaves in the text area of line 108, besides its content
EditedTexts ==
  { <<LBRACE>>,
    <<"[", Lit("A"), "]">>,
    <<"null">>,
    <<LBRACE, RBRACE>> }

\* what the platform answers to POST /assistant
CreateFailures ==
  {[exc |-> TRUE, status |-> 0, body |-> [json |-> FALSE, id |-> PyNone, text |-> "none"]]}
  \cup {[exc |-> FALSE, status |-> st,
         body |-> [json |-> FALSE, id |-> PyNone, text |-> "Bad Request"]] :
          st \in {300, 422}}
CreateSuccesses(n) ==
  {[exc |-> FALSE, status |-> st,
    body |-> [json |-> TRUE, id |-> AgentId(n), text |-> "id"]] : st \in {201, 299}}
  \cup {[exc |-> FALSE, status |-> 201, body |-> b] :
          b \in {[json |-> TRUE, id |-> PyNone, text |-> "no id"],
                 [json |-> FALSE, id |-> PyNone, text |-> "html"]}}

(***************************************************************************)
(* The part of a run every run shares: the prompt of lines 154-158, which  *)
(* ends the run when it raises, and the selector of lines 311-318.         *)
(***************************************************************************)
Keys(assts) == {PyStr(x) : x \in DOMAIN assts}

\* lines 314-317: the selector shows current_candidate when it is a key, else
\* the first key
Selected(assts, cur) ==
  IF DOMAIN assts = {} THEN {cur}
  ELSE IF cur \in Keys(assts) THEN {cur}
  ELSE Keys(assts)

Render(cj, reg) ==
  rendered_prompt' =
    IF RenderCrashes(cj) THEN rendered_prompt ELSE FormatPrompt(prompt_seed(cj, reg))

Select(cj, assts, cur) ==
  current_candidate' \in IF RenderCrashes(cj) THEN {cur} ELSE Selected(assts, cur)


Shown(op, out, err, cj) ==
  [op |-> op, out |-> out, err |-> err, crash |-> RenderCrashes(cj)]

(***************************************************************************)
(* The runs.  Each action is one run of the script with one widget changed *)
(* or one button pressed.  The buttons below line 158 exist only while the *)
(* prompt renders.                                                         *)
(***************************************************************************)
\* the operator types a registration number
SetRegNo(r) ==
  /\ r # reg_no
  /\ reg_no' = r
  /\ Render(candidate_json, r)
  /\ Select(candidate_json, assistants, current_candidate)
  /\ ui' = Shown("none", "none", "none", candidate_json)
  /\ net' = <<>>
  /\ UNCHANGED <<candidate_json, assistants, interview_started_at, interview_status,
                 auto, remote_agents, harness>>

\* lines 90-104
Extract(files, gemini_api_key, resp) ==
  LET called == files /\ gemini_api_key
      r == gemini_extract_candidate_json(resp, reg_no)
      cj == IF called /\ r.ok THEN r.v ELSE candidate_json
      out == IF ~files THEN "Please upload both DAF-1 and DAF-2."
             ELSE IF ~gemini_api_key THEN "Gemini API key is missing."
             ELSE IF r.ok THEN "Extracted candidate JSON with Gemini."
             ELSE "Gemini extraction failed"
  IN /\ candidate_json' = cj
     /\ Render(cj, reg_no)
     /\ Select(cj, assistants, current_candidate)
     /\ ui' = Shown("extract", out, IF called THEN r.err ELSE "none", cj)
     /\ net' = IF called THEN <<[req |-> "generate_content", resp |-> resp]>> ELSE <<>>
     /\ UNCHANGED <<assistants, interview_started_at, interview_status,
                    widgets, remote_agents, harness>>

\* line 108: the text area holds the stored record unless the operator edits it
TextArea(cj) == JsonDumpsIndent(IF Truthy(cj) THEN cj ELSE EmptyDict)

\* ApplyEditedJSON dropping the stored record when the text does not parse
ApplyEditedJSONClearing(text) ==
  LET r == JsonLoads(text)
      cj == IF r.ok THEN r.v ELSE PyNone
  IN /\ candidate_json' = cj
     /\ Render(cj, reg_no)
     /\ Select(cj, assistants, current_candidate)
     /\ ui' = Shown("apply", IF r.ok THEN "Candidate JSON updated." ELSE "Invalid JSON",
                    text, cj)
     /\ net' = <<>>
     /\ UNCHANGED <<assistants, interview_started_at, interview_status,
                    widgets, remote_agents, harness>>

\* lines 109-114; the run shows the text the operator left in the text area
ApplyEditedJSON(text) ==
  LET r == JsonLoads(text)
      cj == IF r.ok THEN r.v ELSE candidate_json
  IN /\ candidate_json' = cj
     /\ Render(cj, reg_no)
     /\ Select(cj, assistants, current_candidate)
     /\ ui' = Shown("apply", IF r.ok THEN "Candidate JSON updated." ELSE "Invalid JSON",
                    text, cj)
     /\ net' = <<>>
     /\ UNCHANGED <<assistants, interview_started_at, interview_status,
                    widgets, remote_agents, harness>>

\* create_btn writing the pointer before the call
create_btn_early_pointer(cj, reg, assts, cur, resp) ==
  LET rn == RollKey(cj, reg)
      r == create_vapi_assistant(resp)
      stored == r.ok /\ IsStr(rn)
  IN [assistants |->
        IF stored
        THEN [x \in DOMAIN assts \cup {rn.s} |->
                IF x = rn.s THEN AgentRecord(r.v, cj) ELSE assts[x]]
        ELSE assts,
      current_candidate |-> IF IsStr(rn) THEN rn ELSE cur,
      out |-> IF stored THEN "Assistant created" ELSE "error",
      err |-> IF ~r.ok THEN r.err
              ELSE IF ~IsStr(rn) THEN <<"TypeError">>
              ELSE <<rn.s, r.v>>]

\* create_btn merging into an entry the roll number already has: the new
\* agent id with the old snapshot
create_btn_merge(cj, reg, assts, cur, resp) ==
  LET rn == RollKey(cj, reg)
      r == create_vapi_assistant(resp)
      stored == r.ok /\ IsStr(rn)
  IN [assistants |->
        IF stored
        THEN [x \in DOMAIN assts \cup {rn.s} |->
                IF x # rn.s THEN assts[x]
                ELSE IF x \in DOMAIN assts
                     THEN [assts[x] EXCEPT !.assistant_id = r.v]
                     ELSE AgentRecord(r.v, cj)]
        ELSE assts,
      current_candidate |-> IF stored THEN rn ELSE cur,
      out |-> IF stored THEN "Assistant created" ELSE "error",
      err |-> IF ~r.ok THEN r.err
              ELSE IF ~IsStr(rn) THEN <<"TypeError">>
              ELSE <<rn.s, r.v>>]

\* lines 185-193, the try block: what it leaves in assistants and
\* current_candidate and what it shows
create_btn(cj, reg, assts, cur, resp) ==
  LET rn == RollKey(cj, reg)
      r == create_vapi_assistant(resp)
      stored == r.ok /\ IsStr(rn)
  IN [assistants |->
        IF stored
        THEN [x \in DOMAIN assts \cup {rn.s} |->
                IF x = rn.s THEN AgentRecord(r.v, cj) ELSE assts[x]]
        ELSE assts,
      current_candidate |-> IF stored THEN rn ELSE cur,
      out |-> IF stored THEN "Assistant created" ELSE "error",
      err |-> IF ~r.ok THEN r.err
              ELSE IF ~IsStr(rn) THEN <<"TypeError">>
              ELSE <<rn.s, r.v>>]

\* CreateAssistant reusing the agent the roll number already has: no request
\* is sent and the entry stays
CreateAssistantReusing(vapi_api_key, blank, resp) ==
  LET rn == RollKey(candidate_json, reg_no)
      reused == vapi_api_key /\ ~blank /\ rn \in Keys(assistants)
      called == vapi_api_key /\ ~blank /\ ~reused
      h == create_btn(candidate_json, reg_no, assistants, current_candidate, resp)
      assts == IF called THEN h.assistants ELSE assistants
      cur == IF called THEN h.current_candidate ELSE IF reused THEN rn
             ELSE current_candidate
      out == IF ~vapi_api_key THEN "Vapi API key required."
             ELSE IF blank THEN "System prompt is empty."
             ELSE IF reused THEN "Assistant created"
             ELSE h.out
  IN /\ ~RenderCrashes(candidate_json)
     /\ assistants' = assts
     /\ remote_agents' =
          IF called /\ ~resp.exc /\ resp.status < 300 /\ resp.body.json
          THEN remote_agents + 1 ELSE remote_agents
     /\ Render(candidate_json, reg_no)
     /\ Select(candidate_json, assts, cur)
     /\ ui' = Shown("create", out,
                    IF called THEN h.err
                    ELSE IF reused THEN <<rn.s, assistants[rn.s].assistant_id>>
                    ELSE <<>>, candidate_json)
     /\ net' = IF called THEN <<[req |-> "POST /assistant", resp |-> resp]>> ELSE <<>>
     /\ UNCHANGED <<candidate_json, interview_started_at, interview_status,
                    widgets, harness>>

\* lines 179-193; blank: the operator emptied the prompt text area
CreateAssistant(vapi_api_key, blank, resp) ==
  LET called == vapi_api_key /\ ~blank
      h == create_btn(candidate_json, reg_no, assistants, current_candidate, resp)
      assts == IF called THEN h.assistants ELSE assistants
      cur == IF called THEN h.current_candidate ELSE current_candidate
      out == IF ~vapi_api_key THEN "Vapi API key required."
             ELSE IF blank THEN "System prompt is empty."
             ELSE h.out
  IN /\ ~RenderCrashes(candidate_json)
     /\ assistants' = assts
     /\ remote_agents' =
          IF called /\ ~resp.exc /\ resp.status < 300 /\ resp.body.json
          THEN remote_agents + 1 ELSE remote_agents
     /\ Render(candidate_json, reg_no)
     /\ Select(candidate_json, assts, cur)
     /\ ui' = Shown("create", out, IF called THEN h.err ELSE <<>>, candidate_json)
     /\ net' = IF called THEN <<[req |-> "POST /assistant", resp |-> resp]>> ELSE <<>>
     /\ UNCHANGED <<candidate_json, interview_started_at, interview_status,
                    widgets, harness>>

\* the operator picks another entry of the selector of line 315
SelectCandidate(key) ==
  /\ ~RenderCrashes(candidate_json)
  /\ key \in Keys(assistants)
  /\ key # current_candidate
  /\ current_candidate' = key
  /\ Render(candidate_json, reg_no)
  /\ ui' = Shown("none", "none", "none", candidate_json)
  /\ net' = <<>>
  /\ UNCHANGED <<candidate_json, assistants, interview_started_at, interview_status,
                 widgets, remote_agents, harness>>

\* what datetime.now(timezone.utc).isoformat() gives at a launch
Clock == {<<2>>, <<3>>}

\* lines 333-335 and 785
StartInterview(now) ==
  /\ ~RenderCrashes(candidate_json)
  /\ DOMAIN assistants # {}
  /\ interview_started_at' = PyStr(now)
  /\ interview_status' = "active"
  /\ Render(candidate_json, reg_no)
  /\ Select(candidate_json, assistants, current_candidate)
  /\ ui' = Shown("start", "Interview launch initiated!", now, candidate_json)
  /\ net' = <<>>
  /\ UNCHANGED <<candidate_json, assistants, widgets, remote_agents, harness>>

\* BackupMethod keeping the timestamp of a session already launched
BackupMethodKeeping(now) ==
  /\ ~RenderCrashes(candidate_json)
  /\ DOMAIN assistants # {}
  /\ interview_started_at' =
       IF interview_started_at = PyNone THEN PyStr(now) ELSE interview_started_at
  /\ interview_status' = "starting"
  /\ Render(candidate_json, reg_no)
  /\ Select(candidate_json, assistants, current_candidate)
  /\ ui' = Shown("backup", "New tab opened!", now, candidate_json)
  /\ net' = <<>>
  /\ UNCHANGED <<candidate_json, assistants, widgets, remote_agents, harness>>

\* BackupMethod ending in the status of the primary launch
BackupMethodActivating(now) ==
  /\ ~RenderCrashes(candidate_json)
  /\ DOMAIN assistants # {}
  /\ interview_started_at' = PyStr(now)
  /\ interview_status' = "active"
  /\ Render(candidate_json, reg_no)
  /\ Select(candidate_json, assistants, current_candidate)
  /\ ui' = Shown("backup", "New tab opened!", now, candidate_json)
  /\ net' = <<>>
  /\ UNCHANGED <<candidate_json, assistants, widgets, remote_agents, harness>>

\* lines 789-802
BackupMethod(now) ==
  /\ ~RenderCrashes(candidate_json)
  /\ DOMAIN assistants # {}
  /\ interview_started_at' = PyStr(now)
  /\ interview_status' = "starting"
  /\ Render(candidate_json, reg_no)
  /\ Select(candidate_json, assistants, current_candidate)
  /\ ui' = Shown("backup", "New tab opened!", now, candidate_json)
  /\ net' = <<>>
  /\ UNCHANGED <<candidate_json, assistants, widgets, remote_agents, harness>>

\* ResetSession emptying the agent map as well
ResetSessionForgetting ==
  /\ ~RenderCrashes(candidate_json)
  /\ DOMAIN assistants # {}
  /\ interview_started_at' = PyNone
  /\ interview_status' = "idle"
  /\ assistants' = [x \in {} |-> PyNone]
  /\ Render(candidate_json, reg_no)
  /\ Select(candidate_json, assistants', current_candidate)
  /\ ui' = Shown("reset", "Session reset successfully.", "none", candidate_json)
  /\ net' = <<>>
  /\ UNCHANGED <<candidate_json, widgets, remote_agents, harness>>

\* ResetSession clearing the timestamp and leaving the status
ResetSessionKeepingStatus ==
  /\ ~RenderCrashes(candidate_json)
  /\ DOMAIN assistants # {}
  /\ interview_started_at' = PyNone
  /\ interview_status' = interview_status
  /\ Render(candidate_json, reg_no)
  /\ Select(candidate_json, assistants, current_candidate)
  /\ ui' = Shown("reset", "Session reset successfully.", "none", candidate_json)
  /\ net' = <<>>
  /\ UNCHANGED <<candidate_json, assistants, widgets, remote_agents, harness>>

\* lines 831-835
ResetSession ==
  /\ ~RenderCrashes(candidate_json)
  /\ DOMAIN assistants # {}
  /\ interview_started_at' = PyNone
  /\ interview_status' = "idle"
  /\ Render(candidate_json, reg_no)
  /\ Select(candidate_json, assistants, current_candidate)
  /\ ui' = Shown("reset", "Session reset successfully.", "none", candidate_json)
  /\ net' = <<>>
  /\ UNCHANGED <<candidate_json, assistants, widgets, remote_agents, harness>>

\* the operator ticks or clears the checkbox of line 889
ToggleAuto ==
  /\ ~RenderCrashes(candidate_json)
  /\ auto' = ~auto
  /\ Render(candidate_json, reg_no)
  /\ Select(candidate_json, assistants, current_candidate)
  /\ ui' = Shown("none", "none", "none", candidate_json)
  /\ net' = <<>>
  /\ UNCHANGED <<candidate_json, assistants, interview_started_at, interview_status,
                 reg_no, remote_agents, harness>>

\* lines 892-894: with the box ticked a run sleeps, then asks for the next run,
\* which no button starts
AutoRerun ==
  /\ ~RenderCrashes(candidate_json)
  /\ auto
  /\ Render(candidate_json, reg_no)
  /\ Select(candidate_json, assistants, current_candidate)
  /\ ui' = Shown("poll", "rerun", "none", candidate_json)
  /\ net' = <<>>
  /\ UNCHANGED <<candidate_json, assistants, interview_started_at, interview_status,
                 widgets, remote_agents, harness>>

(***************************************************************************)
(* Step 6 in the session.  A call is [id, assistantId, startedAt, endedAt, *)
(* updatedAt, createdAt].                                                  *)
(***************************************************************************)
Call(id, aid, st, en, up, cr) ==
  [id |-> id, assistantId |-> aid, startedAt |-> st, endedAt |-> en,
   updatedAt |-> up, createdAt |-> cr]

\* the lists the platform answers with in the session
MainLists ==
  { <<>>,
    <<Call(PyStr("c1"), AgentId(1), PyStr(<<2, 0>>), PyStr(<<3>>), Missing, Missing)>>,
    <<Call(Missing, AgentId(1), PyStr(<<3>>), Missing, Missing, Missing)>>,
    <<Call(PyStr("c9"), AgentId(2), PyStr(<<3>>), Missing, PyStr(<<3>>), Missing)>> }

ListAnswers ==
  {[exc |-> TRUE, status |-> 0, body |-> [shape |-> "none", items |-> <<>>]],
   [exc |-> FALSE, status |-> 500, body |-> [shape |-> "none", items |-> <<>>]],
   [exc |-> FALSE, status |-> 200, body |-> [shape |-> "invalid", items |-> <<>>]],
   [exc |-> FALSE, status |-> 200, body |-> [shape |-> "other", items |-> <<>>]]}
  \cup {[exc |-> FALSE, status |-> 200, body |-> [shape |-> sh, items |-> l]] :
          sh \in {"items", "list"}, l \in MainLists}

\* what the platform answers to GET /call/{id}: a body is [object]: whether it
\* is a JSON object
GetAnswers ==
  {[exc |-> TRUE, status |-> 0, body |-> [object |-> FALSE]],
   [exc |-> FALSE, status |-> 404, body |-> [object |-> FALSE]],
   [exc |-> FALSE, status |-> 200, body |-> [object |-> FALSE]],
   [exc |-> FALSE, status |-> 200, body |-> [object |-> TRUE]]}

\* fetch_call without the status test
fetch_call_lenient(resp) ==
  IF resp.exc THEN Raised(<<"ConnectionError">>)
  ELSE Returned(resp.body)

\* fetch_call, and the reads of lines 956-959 that need an object
fetch_call(resp) ==
  IF resp.exc THEN Raised(<<"ConnectionError">>)
  ELSE IF resp.status >= 300 THEN Raised(<<"Get Call failed:", resp.status>>)
  ELSE IF ~resp.body.object THEN Raised(<<"AttributeError">>)
  ELSE Returned(resp.body)

\* fetch_status taking a wait for an error
fetch_status_strict(out, status) ==
  IF out \in {"Error fetching feedback", "Waiting for interview completion..."}
  THEN "error"
  ELSE IF out = "Interview completed" /\ status \in {"starting", "active"}
       THEN "completed"
  ELSE status

\* fetch_status reopening a session that is already completed
fetch_status_reopen(out, status) ==
  IF out = "Error fetching feedback" THEN "error"
  ELSE IF out = "Interview completed"
       THEN (IF status = "completed" THEN "active" ELSE "completed")
  ELSE status

\* fetch_status marking the session when an input is missing
fetch_status_flagging(out, status) ==
  IF out \in {"Error fetching feedback", "Select a candidate.", "Vapi API key required."}
  THEN "error"
  ELSE IF out = "Interview completed" /\ status \in {"starting", "active"}
       THEN "completed"
  ELSE status

\* fetch_status completing the session from whatever status it has
fetch_status_recovering(out, status) ==
  IF out = "Error fetching feedback" THEN "error"
  ELSE IF out = "Interview completed" THEN "completed"
  ELSE status

\* fetch_status flagging an error only in a session that was launched
fetch_status_launched_only(out, status) ==
  IF out = "Error fetching feedback" /\ status # "idle" THEN "error"
  ELSE IF out = "Interview completed" /\ status \in {"starting", "active"}
       THEN "completed"
  ELSE status

\* lines 1097-1103: the status a fetch leaves
fetch_status(out, status) ==
  IF out = "Error fetching feedback" THEN "error"
  ELSE IF out = "Interview completed" /\ status \in {"starting", "active"}
       THEN "completed"
  ELSE status

\* lines 941-1103: what the block leaves in the session marker, what it
\* shows and what it sends
fetch_now(vapi_api_key, cur, assts, started, status, filtered, unfiltered, got) ==
  LET ready == vapi_api_key /\ Truthy(cur)
      a_id == assts[cur.s].assistant_id
      started_after == IF Truthy(started) THEN started.s ELSE Epoch
      latest == get_latest_call_for_assistant(filtered, unfiltered, a_id, started_after)
      found == latest.ok /\ latest.v # NoCall
      call == IF latest.v.id = Missing THEN Raised(<<"KeyError">>) ELSE fetch_call(got)
      out == IF ~vapi_api_key THEN "Vapi API key required."
             ELSE IF ~Truthy(cur) THEN "Select a candidate."
             ELSE IF ~latest.ok THEN "Error fetching feedback"
             ELSE IF ~found THEN "Waiting for interview completion..."
             ELSE IF ~call.ok THEN "Error fetching feedback"
             ELSE "Interview completed"
  IN [interview_status |-> fetch_status(out, status),
      out |-> out,
      err |-> IF ~ready THEN <<>>
              ELSE IF ~latest.ok THEN latest.err
              ELSE IF found /\ ~call.ok THEN call.err
              ELSE <<>>,
      net |-> IF ~ready THEN <<>>
              ELSE [i \in 1..Len(latest.reqs) |->
                      [req |-> latest.reqs[i],
                       resp |-> IF i = 1 THEN filtered ELSE unfiltered]]
                     \o (IF found /\ latest.v.id # Missing
                         THEN <<[req |-> "GET /call/id", resp |-> got]>> ELSE <<>>)]

\* the button of line 890; with the box of line 889 ticked the run ends at
\* line 894, before the block of line 940
FetchFeedback(vapi_api_key, filtered, unfiltered, got) ==
  LET h == fetch_now(vapi_api_key, current_candidate, assistants,
                     interview_started_at, interview_status,
                     filtered, unfiltered, got)
  IN /\ ~RenderCrashes(candidate_json)
     /\ interview_status' = IF auto THEN interview_status ELSE h.interview_status
     /\ Render(candidate_json, reg_no)
     /\ Select(candidate_json, assistants, current_candidate)
     /\ ui' = IF auto THEN Shown("fetch", "rerun", <<>>, candidate_json)
              ELSE Shown("fetch", h.out, h.err, candidate_json)
     /\ net' = IF auto THEN <<>> ELSE h.net
     /\ UNCHANGED <<candidate_json, assistants, interview_started_at,
                    widgets, remote_agents, harness>>

(***************************************************************************)
(* The session                                                             *)
(***************************************************************************)
Idle == [fn |-> "none"]

\* the state after the first run, which no button starts
InitSession ==
  /\ candidate_json = PyNone
  /\ rendered_prompt = FormatPrompt(prompt_seed(PyNone, ""))
  /\ assistants = [x \in {} |-> PyNone]
  /\ current_candidate = PyNone
  /\ interview_started_at = PyNone
  /\ interview_status = "idle"
  /\ reg_no = ""
  /\ auto = FALSE
  /\ remote_agents = 0
  /\ ui = Shown("none", "none", "none", PyNone)
  /\ net = <<>>

Init ==
  /\ InitSession
  /\ fn_in = Idle
  /\ fn_out = Idle

CreateAnswers ==
  CreateFailures
    \cup (IF remote_agents < MaxAgents THEN CreateSuccesses(remote_agents + 1) ELSE {})

\* steps 1 to 3: the candidate record and the prompt
NextRecord ==
  \/ \E r \in RegNos : SetRegNo(r)
  \/ \E files \in BOOLEAN, key \in BOOLEAN, resp \in GeminiAnswers :
       Extract(files, key, resp)
  \/ \E text \in EditedTexts \cup {TextArea(candidate_json)} : ApplyEditedJSON(text)

SpecRecord == Init /\ [][NextRecord]_vars

\* steps 1 to 4 and the selector, with two of the document service's answers
\* and one edit
ProvisionAnswers ==
  {[exc |-> FALSE, text |-> t] :
     t \in {Fence \o <<WORD, WS>>
               \o JsonDumps(Obj2("name", PyStr("A"), "roll_no", PyStr("A")))
               \o <<WS>> \o Fence,
            JsonDumps(Obj1("roll_no", PyStr("")))}}
ProvisionEdits == {<<"[", Lit("A"), "]">>}

NextProvision ==
  \/ \E r \in RegNos : SetRegNo(r)
  \/ \E resp \in ProvisionAnswers : Extract(TRUE, TRUE, resp)
  \/ \E text \in ProvisionEdits \cup {TextArea(candidate_json)} : ApplyEditedJSON(text)
  \/ \E key \in BOOLEAN, blank \in BOOLEAN, resp \in CreateAnswers :
       CreateAssistant(key, blank, resp)
  \/ \E key \in Keys(assistants) : SelectCandidate(key)

SpecProvision == Init /\ [][NextProvision]_vars

\* steps 1 to 6 with one answer of the document service, two edits, two
\* answers to POST /assistant, and the unfiltered list request answered only
\* when the filtered one failed
SessionAnswers ==
  {[exc |-> FALSE, text |-> JsonDumps(Obj1("roll_no", PyStr("")))]}
SessionEdits == {<<LBRACE>>, <<LBRACE, RBRACE>>, <<"null">>}
\* the agents the platform creates during one session; with one agent the
\* selector of line 315 has one entry and nothing to pick (NextLaunch has two)
MaxSessionAgents == 1
SessionCreateAnswers ==
  {[exc |-> FALSE, status |-> 422,
    body |-> [json |-> FALSE, id |-> PyNone, text |-> "Bad Request"]]}
  \cup (IF remote_agents < MaxSessionAgents
        THEN {[exc |-> FALSE, status |-> 201,
               body |-> [json |-> TRUE, id |-> AgentId(remote_agents + 1),
                         text |-> "id"]]}
        ELSE {})
ListDown == [exc |-> TRUE, status |-> 0, body |-> [shape |-> "none", items |-> <<>>]]
ListError == [exc |-> FALSE, status |-> 500, body |-> [shape |-> "none", items |-> <<>>]]
ListOf(shape, items) ==
  [exc |-> FALSE, status |-> 200, body |-> [shape |-> shape, items |-> items]]
ListMine ==
  ListOf("list", <<Call(PyStr("c1"), AgentId(1), PyStr(<<2, 0>>), PyStr(<<3>>),
                        Missing, Missing)>>)
ListOther ==
  ListOf("items", <<Call(PyStr("c9"), AgentId(2), PyStr(<<3>>), Missing,
                         PyStr(<<3>>), Missing)>>)
ListNoId ==
  ListOf("list", <<Call(Missing, AgentId(1), PyStr(<<3>>), Missing, Missing, Missing)>>)
SessionLists == {ListDown, ListError, ListOf("items", <<>>), ListMine, ListOther, ListNoId}
SessionFallbacks(filtered) ==
  IF list_calls(filtered).ok THEN {ListDown}
  ELSE {ListError, ListOf("list", <<>>), ListMine}
SessionGets == {g \in GetAnswers : ~g.exc}
\* the platform's answers to one fetch: none is read without the key, and
\* the get-call answer is read only when a listing holds a call with an id
SessionFetches ==
  {[key |-> FALSE, filtered |-> ListDown, unfiltered |-> ListDown,
    got |-> [exc |-> FALSE, status |-> 404, body |-> [object |-> FALSE]]]}
  \cup
  {f \in [key : {TRUE}, filtered : SessionLists,
          unfiltered : {ListDown, ListError, ListOf("list", <<>>), ListMine},
          got : SessionGets] :
     /\ f.unfiltered \in SessionFallbacks(f.filtered)
     /\ (ListMine \notin {f.filtered, f.unfiltered} /\ f.filtered # ListOther)
          => f.got.status = 404}

NextSession ==
  \/ \E r \in RegNos : SetRegNo(r)
  \/ \E files \in BOOLEAN, key \in BOOLEAN, resp \in SessionAnswers :
       Extract(files, key, resp)
  \/ \E text \in SessionEdits : ApplyEditedJSON(text)
  \/ \E key \in BOOLEAN, blank \in BOOLEAN, resp \in SessionCreateAnswers :
       CreateAssistant(key, blank, resp)
  \/ \E now \in Clock : StartInterview(now)
  \/ \E now \in Clock : BackupMethod(now)
  \/ ResetSession
  \/ ToggleAuto
  \/ AutoRerun
  \/ \E f \in SessionFetches : FetchFeedback(f.key, f.filtered, f.unfiltered, f.got)

SpecSession == Init /\ [][NextSession]_vars

\* the session with two agents on the platform: every call is answered, and
\* the listings hold a call of the first agent, one of the second, or none
LaunchCreateAnswers ==
  IF remote_agents < MaxAgents
  THEN {[exc |-> FALSE, status |-> 201,
         body |-> [json |-> TRUE, id |-> AgentId(remote_agents + 1), text |-> "id"]]}
  ELSE {[exc |-> FALSE, status |-> 422,
         body |-> [json |-> FALSE, id |-> PyNone, text |-> "Bad Request"]]}
LaunchLists == {ListOf("items", <<>>), ListMine, ListOther}
LaunchGet == [exc |-> FALSE, status |-> 200, body |-> [object |-> TRUE]]

NextLaunch ==
  \/ \E r \in RegNos : SetRegNo(r)
  \/ \E resp \in SessionAnswers : Extract(TRUE, TRUE, resp)
  \/ ApplyEditedJSON(<<LBRACE, RBRACE>>)
  \/ \E resp \in LaunchCreateAnswers : CreateAssistant(TRUE, FALSE, resp)
  \/ \E key \in Keys(assistants) : SelectCandidate(key)
  \/ \E now \in Clock : StartInterview(now)
  \/ \E now \in Clock : BackupMethod(now)
  \/ ResetSession
  \/ ToggleAuto
  \/ AutoRerun
  \/ \E filtered \in LaunchLists : FetchFeedback(TRUE, filtered, ListDown, LaunchGet)

SpecLaunch == Init /\ [][NextLaunch]_vars

(***************************************************************************)
(* gemini_extract_candidate_json on its own: the answers that hold one     *)
(* JSON object with prose around it, and the registration numbers.         *)
(***************************************************************************)
\* the objects: name, roll_no and edu each absent or with one of the values
NameValues == {Missing, PyStr("A")}
RollValues == {Missing, PyStr(""), PyStr("A"), PyNone, EmptyDict}
EduValues == {Missing, EmptyDict, Obj1("name", PyStr("A"))}
ObjectOf(n, r, e) ==
  PyDict([x \in {y \in {"name", "roll_no", "edu"} :
                   (CASE y = "name" -> n [] y = "roll_no" -> r [] OTHER -> e) # Missing}
            |-> CASE x = "name" -> n [] x = "roll_no" -> r [] OTHER -> e])
ExtractorObjects ==
  {ObjectOf(n, r, e) : n \in NameValues, r \in RollValues, e \in EduValues}

\* prose without braces
Prose == {<<>>, <<WORD, WS>>, <<WS, WORD, ":">>, <<TICK, WORD, TICK, WS>>}

\* prefix + serialize(obj) + suffix, the whole in fences or not
Wrap(prefix, obj, suffix, fenced, indent) ==
  LET body == prefix \o (IF indent THEN JsonDumpsIndent(obj) ELSE JsonDumps(obj))
                \o suffix
  IN IF fenced THEN Fence \o body \o Fence ELSE body

ExtractorInputs ==
  {[fn |-> "gemini_extract_candidate_json", obj |-> o, prefix |-> a, suffix |-> b,
    fenced |-> f, reg |-> r, text |-> Wrap(a, o, b, f, i)] :
     o \in ExtractorObjects, a \in Prose, b \in Prose, f \in BOOLEAN,
     i \in BOOLEAN, r \in RegNos}

InitExtractor ==
  /\ InitSession
  /\ fn_in \in ExtractorInputs
  /\ fn_out = Idle

\* lines 86-88 on the answer fn_in.text: the parsed data and the record returned
RunExtractor ==
  /\ fn_in.fn = "gemini_extract_candidate_json"
  /\ fn_out = Idle
  /\ fn_out' = [fn |-> fn_in.fn,
                data |-> SafeJsonExtract(fn_in.text),
                result |-> gemini_extract_candidate_json(
                             [exc |-> FALSE, text |-> fn_in.text], fn_in.reg)]
  /\ UNCHANGED <<session, widgets, remote_agents, ui, net, fn_in>>

SpecExtractor == InitExtractor /\ [][RunExtractor]_vars

(***************************************************************************)
(* get_latest_call_for_assistant on its own: lists of up to MaxCalls calls *)
(* for the agent AgentId(1), answered to the filtered request or, when     *)
(* that one fails, to the unfiltered one.                                  *)
(***************************************************************************)
MaxCalls == 3

Target == AgentId(1)
Thresholds == {Epoch, <<2>>, <<2, 0>>}

\* the calls: started at, before and after the thresholds or without a
\* start, of the agent, of another one or of none, with the recency key in
\* endedAt, updatedAt, createdAt or nowhere
CallPool ==
  { Call(PyStr("c1"), Target, PyStr(<<2>>), PyStr(<<3>>), Missing, Missing),
    Call(PyStr("c2"), Target, PyStr(<<2, 0>>), Missing, PyStr(<<3>>), Missing),
    Call(PyStr("c3"), Target, PyStr(<<3>>), PyStr(<<2>>), PyStr(<<3>>), Missing),
    Call(PyStr("c4"), Target, PyStr(<<1, 5>>), PyStr(<<>>), PyNone, PyStr(<<3, 1>>)),
    Call(PyStr("c5"), AgentId(2), PyStr(<<3>>), PyStr(<<4>>), Missing, Missing),
    Call(PyStr("c6"), Target, Missing, PyStr(<<4>>), Missing, Missing),
    Call(PyStr("c7"), Target, PyNone, PyStr(<<4>>), Missing, Missing),
    Call(PyStr("c8"), Target, PyStr(<<0>>), PyStr(<<4>>), Missing, Missing),
    Call(PyStr("c9"), Missing, PyStr(<<3>>), PyStr(<<4>>), Missing, Missing),
    Call(Missing, Target, PyStr(<<3>>), PyNone, Missing, Missing),
    Call(PyStr("c10"), Target, PyStr(<<>>), Missing, PyStr(<<4>>), PyStr(<<2>>)) }

\* the lists of n calls
CallLists(n) == [1..n -> CallPool]

Listed(shape, items) ==
  [exc |-> FALSE, status |-> 200, body |-> [shape |-> shape, items |-> items]]
Unreachable == [exc |-> TRUE, status |-> 0, body |-> [shape |-> "none", items |-> <<>>]]
ServerError == [exc |-> FALSE, status |-> 500, body |-> [shape |-> "none", items |-> <<>>]]

\* the answers to the two requests that serve the list items
Routes(items) ==
  { <<Listed("items", items), Unreachable>>,
    <<Listed("list", items), Unreachable>>,
    <<Unreachable, Listed("list", items)>>,
    <<ServerError, Listed("items", items)>> }

\* the answers that serve no list
NoRoutes ==
  { <<Unreachable, Unreachable>>,
    <<Listed("invalid", <<>>), ServerError>>,
    <<Listed("other", <<>>), Unreachable>> }

RetrieverInput(r, th, items) ==
  [fn |-> "get_latest_call_for_assistant", filtered |-> r[1], unfiltered |-> r[2],
   assistant_id |-> Target, started_after |-> th, items |-> items]

InitRetriever ==
  /\ InitSession
  /\ \E n \in 0..MaxCalls : \E l \in CallLists(n) :
       \E r \in Routes(l) \cup (IF n = 0 THEN NoRoutes ELSE {}) :
         \E th \in Thresholds : fn_in = RetrieverInput(r, th, l)
  /\ fn_out = Idle

\* lines 906-919 on the answers of fn_in
RunRetriever ==
  /\ fn_in.fn = "get_latest_call_for_assistant"
  /\ fn_out = Idle
  /\ fn_out' = [fn |-> fn_in.fn,
                result |-> get_latest_call_for_assistant(
                             fn_in.filtered, fn_in.unfiltered,
                             fn_in.assistant_id, fn_in.started_after)]
  /\ UNCHANGED <<session, widgets, remote_agents, ui, net, fn_in>>

SpecRetriever == InitRetriever /\ [][RunRetriever]_vars

(***************************************************************************)
(* flatten_feedback_for_table on its own: call objects with no analysis,   *)
(* no structured data, or structured data holding any of the twelve fields *)
(* and one the table does not know.                                        *)
(***************************************************************************)
\* line 932
order ==
  <<"clarityOfExpression", "reasoningAbility", "analyticalDepth",
    "currentAffairsAwareness", "ethicalJudgment", "personalityTraits",
    "socialAwareness", "hobbiesDepth", "overallImpression", "strengths",
    "areasForImprovement", "overallFeedback">>

\* line 933
display_names(k) ==
  CASE k = "clarityOfExpression" -> "Clarity of Expression"
    [] k = "reasoningAbility" -> "Reasoning Ability"
    [] k = "analyticalDepth" -> "Analytical Depth"
    [] k = "currentAffairsAwareness" -> "Current Affairs Awareness"
    [] k = "ethicalJudgment" -> "Ethical Judgment"
    [] k = "personalityTraits" -> "Personality Traits"
    [] k = "socialAwareness" -> "Social Awareness"
    [] k = "hobbiesDepth" -> "Hobbies & Interests"
    [] k = "overallImpression" -> "Overall Impression"
    [] k = "strengths" -> "Key Strengths"
    [] k = "areasForImprovement" -> "Areas for Improvement"
    [] k = "overallFeedback" -> "Overall Feedback"
    [] OTHER -> k

\* x or {}
OrEmptyDict(x) == IF Truthy(x) THEN x ELSE EmptyDict

\* FieldShown listing every field the structured data holds, empty or not
FieldShownIfPresent(structured, k) == k \in DOMAIN structured.f

\* line 935
FieldShown(structured, k) ==
  k \in DOMAIN structured.f /\ Truthy(structured.f[k])

\* lines 934-936
RECURSIVE Rows(_, _)
Rows(structured, i) ==
  IF i > Len(order) THEN <<>>
  ELSE (IF FieldShown(structured, order[i])
        THEN <<[label |-> display_names(order[i]), text |-> structured.f[order[i]]]>>
        ELSE <<>>)
       \o Rows(structured, i + 1)

\* line 937
Placeholder ==
  [label |-> "Status",
   text |-> PyStr("Analysis in progress. Please wait for interview completion.")]

flatten_feedback_for_table(call_obj) ==
  LET analysis == OrEmptyDict(DictGet(call_obj, "analysis", PyNone))
      structured == OrEmptyDict(DictGet(analysis, "structuredData", PyNone))
      rows == Rows(structured, 1)
  IN IF rows = <<>> THEN <<Placeholder>> ELSE rows

\* the fields of the structured data: those of P hold their own name as
\* text, but the field empty holds "" and the field null holds None; unknown
\* adds a field the table does not list
Fields == {order[i] : i \in DOMAIN order}
StructuredData(P, empty, null, unknown) ==
  PyDict([k \in P \cup (IF unknown THEN {"callQuality"} ELSE {}) |->
            IF k = empty THEN PyStr("")
            ELSE IF k = null THEN PyNone
            ELSE PyStr(k)])
EmptyChoices == {"none", "clarityOfExpression", "strengths", "overallFeedback"}
NullChoices == {"none", "reasoningAbility"}

CallWith(analysis) == PyDict([k \in {"id", "analysis"} |->
                                IF k = "id" THEN PyStr("c1") ELSE analysis])
AnalysisWith(structured) ==
  PyDict([k \in {"summary", "structuredData"} |->
            IF k = "summary" THEN PyStr("s") ELSE structured])

\* call objects without structured data
BareCalls ==
  { PyDict([k \in {"id"} |-> PyStr("c1")]),
    CallWith(PyNone),
    CallWith(EmptyDict),
    CallWith(PyDict([k \in {"summary"} |-> PyStr("s")])),
    CallWith(AnalysisWith(PyNone)) }

InitFlatten ==
  /\ InitSession
  /\ \/ \E c \in BareCalls :
          fn_in = [fn |-> "flatten_feedback_for_table", call_obj |-> c,
                   structured |-> EmptyDict]
     \/ \E P \in SUBSET Fields, e \in EmptyChoices, n \in NullChoices,
           u \in BOOLEAN :
          fn_in = [fn |-> "flatten_feedback_for_table",
                   call_obj |-> CallWith(AnalysisWith(StructuredData(P, e, n, u))),
                   structured |-> StructuredData(P, e, n, u)]
  /\ fn_out = Idle

\* lines 928-938 on the call object of fn_in
RunFlatten ==
  /\ fn_in.fn = "flatten_feedback_for_table"
  /\ fn_out = Idle
  /\ fn_out' = [fn |-> fn_in.fn, rows |-> flatten_feedback_for_table(fn_in.call_obj)]
  /\ UNCHANGED <<session, widgets, remote_agents, ui, net, fn_in>>

SpecFlatten == InitFlatten /\ [][RunFlatten]_vars

(***************************************************************************)
(* Properties                                                              *)
(***************************************************************************)
ExtractorRan == fn_out # Idle /\ fn_out.fn = "gemini_extract_candidate_json"
RetrieverRan == fn_out # Idle /\ fn_out.fn = "get_latest_call_for_assistant"

\* C1: for every JSON object obj and every prose prefix and suffix without
\* braces, the whole wrapped in code fences or not, _safe_json_extract of
\* prefix + serialize(obj) + suffix parses and returns exactly obj.
C1_ExtractRecoversObject ==
  ExtractorRan => fn_out.data.ok /\ fn_out.data.v = fn_in.obj

\* C1 at work: a fenced answer with prose on both sides of an object that
\* holds a nested object
C1_Witness ==
  /\ ExtractorRan
  /\ fn_in.fenced
  /\ fn_in.prefix # <<>>
  /\ fn_in.suffix # <<>>
  /\ "edu" \in DOMAIN fn_in.obj.f
  /\ fn_in.obj.f["edu"] = Obj1("name", PyStr("A"))
  /\ fn_out.data.v = fn_in.obj

\* what C2 calls a text with no brace pair, and the slice it speaks of
HasBracePair(t) ==
  \E i \in DOMAIN t, j \in DOMAIN t : i < j /\ t[i] = LBRACE /\ t[j] = RBRACE
BraceSlice(t) ==
  LET i == CHOOSE x \in DOMAIN t : t[x] = LBRACE /\ \A y \in 1..(x - 1) : t[y] # LBRACE
      j == CHOOSE x \in DOMAIN t : t[x] = RBRACE /\ \A y \in (x + 1)..Len(t) : t[y] # RBRACE
  IN SubSeq(t, i, j)
Malformed(t) == ~HasBracePair(t) \/ ~JsonLoads(BraceSlice(t)).ok

ExtractFailed == "Gemini extraction failed"
ExtractSucceeded == "Extracted candidate JSON with Gemini."

\* C2 as stated: whenever the answer's text has no brace pair (an empty answer
\* included) or its slice is not valid JSON, the extract action fails with an
\* error and the stored record after it equals the stored record before it.
C2_EveryMalformedTextFails ==
  [][ (/\ ui'.op = "extract"
       /\ net' # <<>>
       /\ ~net'[1].resp.exc
       /\ Malformed(net'[1].resp.text))
      => ui'.out = ExtractFailed /\ candidate_json' = candidate_json ]_vars

\* C2 amended: whenever the answer's text is not empty and has no brace pair
\* or a slice that is not valid JSON, the extract action fails with an error
\* and leaves the stored record as it was; an empty answer is read as the
\* empty object, the action succeeds and stores a record whose only field is
\* roll_no, the registration number.
C2_NonEmptyMalformedTextFails ==
  [][ (/\ ui'.op = "extract"
       /\ net' # <<>>
       /\ ~net'[1].resp.exc)
      => LET text == net'[1].resp.text
         IN /\ Len(text) > 0 /\ Malformed(text)
                 => ui'.out = ExtractFailed /\ candidate_json' = candidate_json
            /\ Len(text) = 0
                 => /\ ui'.out = ExtractSucceeded
                    /\ candidate_json' = Obj1("roll_no", PyStr(reg_no)) ]_vars

\* C2 at work: an answer of prose alone has gone by and the record stored
\* before it is still there
C2_Witness ==
  /\ ui.op = "extract"
  /\ ui.out = ExtractFailed
  /\ net # <<>>
  /\ net[1].resp.text = <<WORD>>
  /\ candidate_json = Obj2("name", PyStr("A"), "roll_no", PyStr("A"))

\* C3: after a successful extraction with registration number R, a parsed
\* object without roll_no or with a falsy one gives a record with roll_no = R,
\* a parsed object with a non-empty roll_no V gives a record with roll_no = V,
\* and every other field of the parsed object is in the record unchanged.
C3_RollNoFallback ==
  ExtractorRan /\ fn_out.result.ok =>
    LET o == fn_in.obj.f
        d == fn_out.result.v.f
    IN /\ DOMAIN d = DOMAIN o \cup {"roll_no"}
       /\ \A k \in DOMAIN o \ {"roll_no"} : d[k] = o[k]
       /\ d["roll_no"] =
            IF "roll_no" \in DOMAIN o /\ Truthy(o["roll_no"]) THEN o["roll_no"]
            ELSE PyStr(fn_in.reg)

\* C3 at work: an empty roll_no beside a name, and the registration number R
C3_Witness ==
  /\ ExtractorRan
  /\ fn_out.result.ok
  /\ fn_in.reg = "R"
  /\ "roll_no" \in DOMAIN fn_in.obj.f
  /\ fn_in.obj.f["roll_no"] = PyStr("")
  /\ "name" \in DOMAIN fn_in.obj.f
  /\ fn_out.result.v.f["roll_no"] = PyStr("R")
  /\ fn_out.result.v.f["name"] = PyStr("A")

ExtractionStored == ui.op = "extract" /\ ui.out = ExtractSucceeded

C5_PromptCompositionTotal ==
  /\ ~ui.crash
  /\ Len(rendered_prompt) > 5
  /\ LET d == IF Truthy(candidate_json) THEN candidate_json ELSE EmptyDict
     IN /\ IsDict(d)
        /\ rendered_prompt[2] =
             (IF "name" \in DOMAIN d.f THEN FormatStr(d.f["name"]) ELSE "Candidate")
        /\ rendered_prompt[4] =
             (IF "roll_no" \in DOMAIN d.f THEN FormatStr(d.f["roll_no"]) ELSE reg_no)
        /\ SubSeq(rendered_prompt, 6, Len(rendered_prompt)) = JsonDumpsIndent(d)

CreateCalled == ui.op = "create" /\ net # <<>>

\* C6: create_vapi_assistant returns the id the platform assigned when the
\* create call answers with a status < 300, and for every status >= 300 raises
\* an error whose message carries the status code and the response body, and
\* returns no id.
C6_CreateStatus ==
  CreateCalled /\ ~net[1].resp.exc =>
    LET resp == net[1].resp
    IN /\ resp.status >= 300 =>
            /\ ui.out = "error"
            /\ ui.err = <<"Assistant create failed:", resp.status, resp.body.text>>
       /\ resp.status < 300 /\ resp.body.json /\ IsStr(resp.body.id) =>
            /\ ui.out = "Assistant created"
            /\ ui.err[2] = resp.body.id

\* C6 at work: the platform answered 422 and the error shows 422 and the body
C6_Witness ==
  /\ CreateCalled
  /\ ~net[1].resp.exc
  /\ net[1].resp.status = 422
  /\ ui.err = <<"Assistant create failed:", 422, "Bad Request">>

\* C7: when the create-agent action fails, by a status >= 300 or by any
\* exception of the call, no AgentRecord is written: the agent map and the
\* selected-candidate pointer are as they were before the action.
C7_FailedCreateWritesNothing ==
  [][ ui'.op = "create" /\ net' # <<>> /\ ui'.out # "Assistant created"
      => assistants' = assistants /\ current_candidate' = current_candidate ]_vars

\* C7 at work: a create call answered 422 while the map holds an agent and
\* the record in the store has another roll number than the selected one
C7_Witness ==
  /\ CreateCalled
  /\ ui.out = "error"
  /\ net[1].resp.status = 422
  /\ DOMAIN assistants # {}
  /\ RollKey(candidate_json, reg_no) # current_candidate

\* C8: the agent map holds one AgentRecord per roll number: a successful
\* create-agent action puts under the roll number the new agent id, name and
\* record snapshot in place of whatever entry was there, leaves the entries of
\* all other roll numbers as they were, and points the selection at that roll
\* number.
C8_CreateOverwrites ==
  [][ ui'.op = "create" /\ ui'.out = "Assistant created"
      => LET rn == ui'.err[1]
             d == IF Truthy(candidate_json) THEN candidate_json ELSE EmptyDict
         IN /\ DOMAIN assistants' = DOMAIN assistants \cup {rn}
            /\ \A k \in DOMAIN assistants \ {rn} : assistants'[k] = assistants[k]
            /\ assistants'[rn] =
                 [assistant_id |-> net'[1].resp.body.id,
                  candidate_json |-> d,
                  name |-> IF "name" \in DOMAIN d.f THEN d.f["name"]
                           ELSE PyStr("Candidate")]
            /\ current_candidate' = PyStr(rn) ]_vars

\* C8 at work: the second agent the platform created is the only entry of
\* the map and holds the record now in the store
C8_Witness ==
  /\ ui.op = "create"
  /\ ui.out = "Assistant created"
  /\ remote_agents = 2
  /\ \E k \in DOMAIN assistants :
       /\ DOMAIN assistants = {k}
       /\ assistants[k].assistant_id = AgentId(2)
       /\ assistants[k].candidate_json = candidate_json
       /\ current_candidate = PyStr(k)

\* a >= b on str, by the first place where the two differ
LexGeq(a, b) ==
  LET n == IF Len(a) < Len(b) THEN Len(a) ELSE Len(b)
      D == {i \in 1..n : a[i] # b[i]}
  IN IF D = {} THEN Len(a) >= Len(b)
     ELSE LET i == CHOOSE x \in D : \A y \in D : x <= y IN a[i] > b[i]

\* what C9 says is retained
Kept(c, assistant_id, threshold) ==
  /\ c.assistantId = assistant_id
  /\ c.startedAt # Missing
  /\ c.startedAt # PyNone
  /\ LexGeq(c.startedAt.s, threshold)

Count(seq, c) == Cardinality({i \in DOMAIN seq : seq[i] = c})

\* C9: get_latest_call_for_assistant retains exactly the listed calls whose
\* assistantId is the target agent id and whose startedAt is lexicographically
\* >= the threshold, each as often as it is listed; a call of another agent or
\* with an earlier startedAt is never retained, whether the filtered request
\* or the unfiltered one served the list.
C9_RetainedExactly ==
  RetrieverRan /\ fn_out.result.ok =>
    \A c \in CallPool :
      Count(fn_out.result.filtered, c) =
        IF Kept(c, fn_in.assistant_id, fn_in.started_after)
        THEN Count(fn_in.items, c) ELSE 0

\* C9 at work: the unfiltered request served a call started exactly at the
\* threshold, one of another agent and one started before the threshold, and
\* only the first is retained
C9_Witness ==
  /\ RetrieverRan
  /\ fn_out.result.reqs = <<"list_filtered", "list_unfiltered">>
  /\ fn_in.started_after = <<2>>
  /\ Len(fn_in.items) = 3
  /\ \E i, j, k \in 1..3 :
       /\ fn_in.items[i].startedAt = PyStr(<<2>>)
       /\ fn_in.items[i].assistantId = Target
       /\ fn_in.items[j].assistantId = AgentId(2)
       /\ fn_in.items[k].startedAt = PyStr(<<1, 5>>)
       /\ fn_out.result.filtered = <<fn_in.items[i]>>

\* the recency key as C10 gives it; a field is present when it has a
\* non-empty value
Present(v) == v # Missing /\ v # PyNone /\ v # PyStr(<<>>)
KeyOf(c) ==
  IF Present(c.endedAt) THEN c.endedAt.s
  ELSE IF Present(c.updatedAt) THEN c.updatedAt.s
  ELSE IF Present(c.createdAt) THEN c.createdAt.s
  ELSE <<>>

\* C10: the call get_latest_call_for_assistant returns is a retained call
\* whose recency key (endedAt if present, else updatedAt, else createdAt, else
\* the empty string) is lexicographically >= that of every retained call, and
\* among the retained calls with that key it is the first in the order the
\* platform returned; with nothing retained the result is the empty object.
C10_LatestFirstOfGreatest ==
  RetrieverRan /\ fn_out.result.ok =>
    LET R == {i \in DOMAIN fn_in.items :
                Kept(fn_in.items[i], fn_in.assistant_id, fn_in.started_after)}
        G == {i \in R : \A j \in R : LexGeq(KeyOf(fn_in.items[i]), KeyOf(fn_in.items[j]))}
    IN IF R = {} THEN fn_out.result.v = NoCall
       ELSE fn_out.result.v = fn_in.items[CHOOSE i \in G : \A j \in G : i <= j]

\* C10 at work: three retained calls, the first with a smaller key, the
\* other two with the greatest key, one in endedAt and one in updatedAt; the
\* second of the list is returned
C10_Witness ==
  /\ RetrieverRan
  /\ fn_out.result.ok
  /\ Len(fn_in.items) = 3
  /\ Len(fn_out.result.filtered) = 3
  /\ KeyOf(fn_in.items[1]) = <<2>>
  /\ KeyOf(fn_in.items[2]) = <<3>>
  /\ KeyOf(fn_in.items[3]) = <<3>>
  /\ fn_in.items[2] # fn_in.items[3]
  /\ fn_out.result.v = fn_in.items[2]

\* the fetch block of line 940 ran and sent requests n; the list it was served
Waiting == "Waiting for interview completion..."
FetchError == "Error fetching feedback"
ListingSucceeded(n) ==
  /\ n # <<>>
  /\ \/ list_calls(n[1].resp).ok
     \/ Len(n) >= 2 /\ n[2].req = "list_unfiltered" /\ list_calls(n[2].resp).ok
ServedList(n) ==
  IF list_calls(n[1].resp).ok THEN list_calls(n[1].resp).v
  ELSE list_calls(n[2].resp).v
GetRequests(n) == {i \in DOMAIN n : n[i].req = "GET /call/id"}
Threshold(started) == IF started = PyNone THEN Epoch ELSE started.s
Survivors(n, assts, cur, started) ==
  {i \in DOMAIN ServedList(n) :
     Kept(ServedList(n)[i], assts[cur.s].assistant_id, Threshold(started))}

\* C11: when the listing succeeds and no call survives the filter (an empty
\* list, calls of other agents only, or calls all started before the session
\* threshold), the fetch-feedback action shows the waiting state, sends no
\* get-call request, shows no error and leaves the session status as it was.
C11_NoSurvivorWaits ==
  [][ (/\ ui'.op = "fetch"
       /\ ListingSucceeded(net')
       /\ Survivors(net', assistants', current_candidate', interview_started_at') = {})
      => /\ ui'.out = Waiting
         /\ ui'.err = <<>>
         /\ GetRequests(net') = {}
         /\ interview_status' = interview_status ]_vars

\* C11 at work: during an active session launched at 3 the platform lists
\* one call of the selected agent started at 2,0 and the fetch waits
C11_Witness ==
  /\ ui.op = "fetch"
  /\ ui.out = Waiting
  /\ net # <<>>
  /\ net[1].resp = ListMine
  /\ interview_started_at = PyStr(<<3>>)
  /\ interview_status = "active"
  /\ assistants[current_candidate.s].assistant_id = AgentId(1)

Refused(r) == ~r.resp.exc /\ r.resp.status >= 300

\* C12 as stated: any status >= 300 the platform returns on a list-calls
\* request or on the get-call request of a fetch-feedback action is shown to
\* the operator as an error.
C12_EveryRefusalReported ==
  ui.op = "fetch" =>
    \A i \in DOMAIN net : Refused(net[i]) => ui.out = FetchError

\* C12 amended: a status >= 300 on the unfiltered list-calls request or on the
\* get-call request is shown to the operator as an error that carries the
\* status, and the session status becomes error; a status >= 300 on the
\* filtered list-calls request is not shown by itself: it is followed by the
\* unfiltered request, whose outcome decides.
C12_LastRefusalReported ==
  ui.op = "fetch" =>
    \A i \in DOMAIN net :
      Refused(net[i]) =>
        /\ net[i].req = "list_unfiltered" =>
             /\ ui.out = FetchError
             /\ ui.err = <<"List Calls failed:", net[i].resp.status>>
             /\ interview_status = "error"
        /\ net[i].req = "GET /call/id" =>
             /\ ui.out = FetchError
             /\ ui.err = <<"Get Call failed:", net[i].resp.status>>
             /\ interview_status = "error"
        /\ net[i].req = "list_filtered" =>
             /\ i = 1
             /\ Len(net) >= 2
             /\ net[2].req = "list_unfiltered"

\* C12 at work: the listing gave a call of the selected agent and the
\* get-call request was answered 404
C12_Witness ==
  /\ ui.op = "fetch"
  /\ Len(net) = 2
  /\ net[2].req = "GET /call/id"
  /\ net[2].resp.status = 404
  /\ ui.err = <<"Get Call failed:", 404>>
  /\ interview_status = "error"

UnfilteredRequests(n) == {i \in DOMAIN n : n[i].req = "list_unfiltered"}

\* C13: when the filtered list-calls request fails, the retriever sends
\* exactly one unfiltered list-calls request, right after it, and filters its
\* result by agent and threshold itself; it sends none when the filtered
\* request succeeded; when the unfiltered request fails too the fetch-feedback
\* action ends in error.
C13_FallbackOnce ==
  ui.op = "fetch" /\ net # <<>> =>
    /\ net[1].req = "list_filtered"
    /\ UnfilteredRequests(net) = IF list_calls(net[1].resp).ok THEN {} ELSE {2}
    /\ ~ListingSucceeded(net) =>
         /\ Len(net) = 2
         /\ ui.out = FetchError
         /\ ui.err = list_calls(net[2].resp).err
         /\ interview_status = "error"
    /\ ListingSucceeded(net) =>
         LET S == Survivors(net, assistants, current_candidate, interview_started_at)
         IN /\ S = {} <=> ui.out = Waiting
            /\ S # {} /\ (\E i \in S : ServedList(net)[i].id # Missing)
                 => GetRequests(net) = {Len(net)}

\* C13 at work: the filtered request was answered 500, the unfiltered one
\* listed a call of the selected agent, and the report came
C13_Witness ==
  /\ ui.op = "fetch"
  /\ Len(net) = 3
  /\ net[1].resp = ListError
  /\ net[2].req = "list_unfiltered"
  /\ net[2].resp = ListMine
  /\ net[3].req = "GET /call/id"
  /\ ui.out = "Interview completed"

\* C14: while the auto-refresh box is ticked, with an API key and a selected
\* candidate, every run of the script reaches the fetch block and sends a
\* list-calls request before the next cycle starts.
C14_PollingFetches ==
  /\ ui.op = "poll" /\ Truthy(current_candidate) =>
       net # <<>> /\ net[1].req = "list_filtered"
  /\ ui.op = "fetch" /\ auto /\ Truthy(current_candidate) => ui.out # "rerun"

\* C15: applying the edited candidate JSON puts the parsed value in place of
\* the whole stored record when the text is valid JSON; when the text does not
\* parse the action shows an invalid-JSON error and leaves the stored record,
\* the agent map and the session marker as they were.
C15_ApplyReplacesOrKeeps ==
  [][ ui'.op = "apply"
      => LET r == JsonLoads(ui'.err)
         IN /\ r.ok => ui'.out = "Candidate JSON updated." /\ candidate_json' = r.v
            /\ ~r.ok =>
                 /\ ui'.out = "Invalid JSON"
                 /\ candidate_json' = candidate_json
                 /\ assistants' = assistants
                 /\ interview_started_at' = interview_started_at
                 /\ interview_status' = interview_status ]_vars

\* C15 at work: a text that does not parse was applied during an active
\* session with an agent and an extracted record, and the record is there
C15_Witness ==
  /\ ui.op = "apply"
  /\ ui.out = "Invalid JSON"
  /\ ui.err = <<LBRACE>>
  /\ candidate_json = Obj1("roll_no", PyStr("R"))
  /\ DOMAIN assistants # {}
  /\ interview_status = "active"
  /\ interview_started_at # PyNone

\* the runs that end at an input error
InputError(u) ==
  \/ u.op = "extract"
       /\ u.out \in {"Please upload both DAF-1 and DAF-2.", "Gemini API key is missing."}
  \/ u.op = "create" /\ u.out \in {"Vapi API key required.", "System prompt is empty."}
  \/ u.op = "fetch" /\ u.out \in {"Vapi API key required.", "Select a candidate."}

\* C16: an extract action with fewer than two files or no extraction key, a
\* create-agent action with a blank prompt or no platform key, and a
\* fetch-feedback action with no selected candidate or no platform key send no
\* request and leave the candidate record, the agent map, the selected
\* candidate, the session timestamp and the session status as they were.
C16_InputErrorsMutateNothing ==
  [][ InputError(ui')
      => /\ net' = <<>>
         /\ candidate_json' = candidate_json
         /\ assistants' = assistants
         /\ current_candidate' = current_candidate
         /\ interview_started_at' = interview_started_at
         /\ interview_status' = interview_status
         /\ remote_agents' = remote_agents ]_vars

\* C16 at work: during an active session with an agent the create button was
\* pressed over a blank prompt
C16_Witness ==
  /\ ui.op = "create"
  /\ ui.out = "System prompt is empty."
  /\ net = <<>>
  /\ DOMAIN assistants # {}
  /\ interview_status = "active"

\* C17: there is one session marker: the reset action sets the start
\* timestamp to null and the status to idle; every launch, primary or backup,
\* for whichever candidate is selected, writes the current time over the one
\* start timestamp; nothing else writes it, and a fetch-feedback for whichever
\* candidate is selected filters by that timestamp, or by the epoch when it is
\* null.
C17_OneSessionMarker ==
  [][ /\ ui'.op = "reset" =>
           interview_started_at' = PyNone /\ interview_status' = "idle"
      /\ ui'.op \in {"start", "backup"} => interview_started_at' = PyStr(ui'.err)
      /\ ui'.op \notin {"reset", "start", "backup"} =>
           interview_started_at' = interview_started_at
      /\ ui'.op = "fetch" /\ ListingSucceeded(net') =>
           (ui'.out = Waiting
              <=> Survivors(net', assistants', current_candidate',
                            interview_started_at) = {}) ]_vars

\* C17 at work: with two agents in the map and the session launched at 3 by
\* the backup method, a fetch for the first agent finds its call started at
\* 2,0 too early
C17_Witness ==
  /\ ui.op = "fetch"
  /\ ui.out = Waiting
  /\ Cardinality(DOMAIN assistants) = 2
  /\ interview_started_at = PyStr(<<3>>)
  /\ interview_status = "starting"
  /\ net # <<>>
  /\ net[1].resp = ListMine
  /\ assistants[current_candidate.s].assistant_id = AgentId(1)

\* the fetch block run once more on the state it left, the platform
\* answering as it did; an answer that was not asked for may be any
Replays(n, u, assts, cur, started, status) ==
  LET key == u.out # "Vapi API key required."
      F == IF n # <<>> THEN {n[1].resp} ELSE SessionLists
      U == IF Len(n) >= 2 /\ n[2].req = "list_unfiltered" THEN {n[2].resp}
           ELSE SessionLists
      G == IF GetRequests(n) # {} THEN {n[Len(n)].resp} ELSE SessionGets
  IN {fetch_now(key, cur, assts, started, status, f, x, g) :
        f \in F, x \in U, g \in G}

\* C18: the fetch-feedback action never changes the candidate record, the
\* agent map, the selected candidate or the session start timestamp, and a
\* second fetch-feedback against an unchanged platform leaves the local state
\* the first one left and shows the same outcome.
C18_FetchReadOnlyIdempotent ==
  [][ ui'.op = "fetch"
      => /\ candidate_json' = candidate_json
         /\ assistants' = assistants
         /\ current_candidate' = current_candidate
         /\ interview_started_at' = interview_started_at
         /\ ui'.out # "rerun" =>
              \A again \in Replays(net', ui', assistants', current_candidate',
                                   interview_started_at', interview_status') :
                /\ again.interview_status = interview_status'
                /\ again.out = ui'.out
                /\ again.err = ui'.err
                /\ again.net = net' ]_vars

\* C18 at work: a fetch during an active session got the call and its
\* report, and the session is completed
C18_Witness ==
  /\ ui.op = "fetch"
  /\ ui.out = "Interview completed"
  /\ interview_status = "completed"
  /\ interview_started_at = PyStr(<<2>>)
  /\ Len(net) = 2
  /\ net[1].resp = ListMine

FlattenRan == fn_out # Idle /\ fn_out.fn = "flatten_feedback_for_table"
NonEmpty(v) == v # PyNone /\ v # PyStr("")

\* C19: the feedback table has one (label, text) row for each of the twelve
\* known fields that the structured data holds with a non-empty value, in the
\* display order from clarityOfExpression to overallFeedback, and no row for
\* a field that is missing, empty or unknown; when it holds none of the
\* twelve the table is exactly the one row saying the analysis is in progress.
C19_TableRows ==
  FlattenRan =>
    LET S == fn_in.structured.f
        K == {i \in 1..12 : order[i] \in DOMAIN S /\ NonEmpty(S[order[i]])}
        rows == fn_out.rows
    IN IF K = {}
       THEN /\ Len(rows) = 1
            /\ rows[1].label = "Status"
            /\ rows[1].text =
                 PyStr("Analysis in progress. Please wait for interview completion.")
       ELSE /\ Len(rows) = Cardinality(K)
            /\ \A i \in K :
                 LET j == Cardinality({x \in K : x <= i})
                 IN /\ rows[j].label = display_names(order[i])
                    /\ rows[j].text = S[order[i]]

\* C19 at work: the structured data holds strengths empty, reasoningAbility
\* null, overallFeedback, clarityOfExpression and an unknown field, and the
\* table has the two rows of clarityOfExpression and overallFeedback
C19_Witness ==
  /\ FlattenRan
  /\ DOMAIN fn_in.structured.f =
       {"strengths", "reasoningAbility", "overallFeedback", "clarityOfExpression",
        "callQuality"}
  /\ fn_in.structured.f["strengths"] = PyStr("")
  /\ fn_in.structured.f["reasoningAbility"] = PyNone
  /\ Len(fn_out.rows) = 2
  /\ fn_out.rows[1].label = "Clarity of Expression"
  /\ fn_out.rows[2].label = "Overall Feedback"

UpstreamEmptyRollNo == JsonDumps(Obj1("roll_no", PyStr("")))
HoldsRollNo(cj, rn) ==
  IsDict(cj) /\ "roll_no" \in DOMAIN cj.f /\ cj.f["roll_no"] = PyStr(rn)

\* C20: the round trip. An extraction whose upstream JSON has roll_no "" run
\* with the registration number R stores a record with roll_no R; a
\* successful create-agent action on a record with roll_no R puts an entry
\* under the key R in the agent map; and a fetch-feedback action for the
\* candidate R whose listing the platform answers with no call at all shows
\* the waiting state, shows no error and leaves the session status alone.
C20_RoundTrip ==
  [][ /\ (/\ ui'.op = "extract"
          /\ ui'.out = ExtractSucceeded
          /\ net'[1].resp.text = UpstreamEmptyRollNo
          /\ reg_no = "R")
         => HoldsRollNo(candidate_json', "R")
      /\ (/\ HoldsRollNo(candidate_json, "R")
          /\ ui'.op = "create"
          /\ ui'.out = "Assistant created")
         => /\ "R" \in DOMAIN assistants'
            /\ HoldsRollNo(assistants'["R"].candidate_json, "R")
      /\ (/\ current_candidate' = PyStr("R")
          /\ "R" \in DOMAIN assistants'
          /\ ui'.op = "fetch"
          /\ ~auto
          /\ net' # <<>>
          /\ list_calls(net'[1].resp).ok
          /\ list_calls(net'[1].resp).v = <<>>)
         => /\ ui'.out = Waiting
            /\ ui'.err = <<>>
            /\ interview_status' = interview_status ]_vars

\* C20 at work: the record extracted with registration number R is the
\* snapshot of the agent under the key R, the registration field has been
\* cleared since, the platform lists no call and the fetch waits
C20_Witness ==
  /\ ui.op = "fetch"
  /\ ui.out = Waiting
  /\ ui.err = <<>>
  /\ reg_no = ""
  /\ current_candidate = PyStr("R")
  /\ "R" \in DOMAIN assistants
  /\ assistants["R"].candidate_json = Obj1("roll_no", PyStr("R"))
  /\ candidate_json = Obj1("roll_no", PyStr("R"))
  /\ net = <<[req |-> "list_filtered", resp |-> ListOf("items", <<>>)]>>
  /\ interview_status = "idle"

\* the agents on the platform that no entry of the agent map refers to
Orphans(n, assts) ==
  {i \in 1..n : \A k \in DOMAIN assts : assts[k].assistant_id # AgentId(i)}
CreateSucceeded(u) == u.op = "create" /\ u.out = "Assistant created"

\* C21: provisioning is not idempotent and never deletes: every successful
\* create-agent action adds one agent to the platform, for a roll number that
\* has an agent too, and no other action changes the number of agents there,
\* so that number is the number of successful creates and never decreases;
\* and the agents no entry of the agent map refers to number that count minus
\* the number of entries.
C21_CreatesAccumulate ==
  [][ /\ CreateSucceeded(ui') => remote_agents' = remote_agents + 1
      /\ ~CreateSucceeded(ui') => remote_agents' = remote_agents
      /\ Cardinality(Orphans(remote_agents', assistants'))
           = remote_agents' - Cardinality(DOMAIN assistants') ]_vars

\* C21 at work: the second create for the roll number NA has just replaced
\* the first agent, which is still on the platform and in no entry
C21_Witness ==
  /\ CreateSucceeded(ui)
  /\ remote_agents = 2
  /\ DOMAIN assistants = {"NA"}
  /\ assistants["NA"].assistant_id = AgentId(2)
  /\ Orphans(remote_agents, assistants) = {1}

\* C22: in every reachable state the selected-candidate pointer is null or a
\* key of the agent map, so the lookup of the agent by the launch and
\* fetch-feedback actions finds its entry: the pointer is null only while the
\* map is empty, and a fetch that sent a request read the entry of the
\* pointer.
C22_PointerInMap ==
  /\ current_candidate = PyNone \/ current_candidate \in Keys(assistants)
  /\ current_candidate = PyNone => DOMAIN assistants = {}
  /\ ui.op \in {"start", "backup"} \/ (ui.op = "fetch" /\ net # <<>>)
       => current_candidate \in Keys(assistants)

\* C22 at work: with two entries in the map the operator has picked the
\* other one, launched, and a fetch has looked its agent up
C22_Witness ==
  /\ ui.op = "fetch"
  /\ net # <<>>
  /\ DOMAIN assistants = {"NA", "R"}
  /\ current_candidate = PyStr("NA")
  /\ assistants["R"].assistant_id = AgentId(2)
  /\ interview_status = "active"

Statuses == {"idle", "starting", "active", "completed", "error"}

\* C23: in every reachable state the session status is one of idle,
\* starting, active, completed and error, and when it is starting, active or
\* completed the session start timestamp is not null: a null timestamp goes
\* with idle or error only.
C23_StatusAndTimestamp ==
  /\ interview_status \in Statuses
  /\ interview_status \in {"starting", "active", "completed"}
       => interview_started_at # PyNone /\ IsStr(interview_started_at)

\* C23 at work: a fetch found the call of a session launched at 2 and
\* completed it
C23_Witness ==
  /\ ui.op = "fetch"
  /\ ui.out = "Interview completed"
  /\ interview_status = "completed"
  /\ interview_started_at = PyStr(<<2>>)

\* C24: every AgentRecord in the agent map carries an agent identifier that
\* is not null: a create-agent action writes an entry only when the platform
\* returned an identifier, and an answer below 300 whose body has no id
\* field leaves no entry with a null agent id.
C24_EveryEntryHasAgentId ==
  \A k \in DOMAIN assistants :
    assistants[k].assistant_id # PyNone /\ IsStr(assistants[k].assistant_id)

Completed == "Interview completed"
Launched(u) == u.op \in {"start", "backup"}

\* C25: the status completed is entered only by a fetch-feedback action that
\* found a retained call and fetched it while the status was starting or
\* active; a fetch that succeeds while the status is idle, completed or error
\* leaves the status as it was; so a status error stays error, successful
\* fetches included, until a reset or a launch.
C25_CompletedOnlyFromLaunched ==
  [][ /\ (interview_status' = "completed" /\ interview_status # "completed")
         => /\ ui'.op = "fetch"
            /\ ui'.out = Completed
            /\ GetRequests(net') # {}
            /\ fetch_call(net'[Len(net')].resp).ok
            /\ interview_status \in {"starting", "active"}
      /\ (/\ ui'.op = "fetch"
          /\ ui'.out = Completed
          /\ interview_status \in {"idle", "completed", "error"})
         => interview_status' = interview_status
      /\ (interview_status = "error" /\ interview_status' # "error")
         => ui'.op = "reset" \/ Launched(ui') ]_vars

\* C25 at work: a fetch has found and shown the call of the agent while the
\* status was error, and the status is still error
C25_Witness ==
  /\ ui.op = "fetch"
  /\ ui.out = Completed
  /\ GetRequests(net) # {}
  /\ interview_status = "error"

\* C26: a primary launch ends with the status active and a backup launch
\* with the status starting; the status becomes active by a primary launch
\* only, so after a backup launch it is starting until it moves to completed,
\* error or idle, or a primary launch makes it active.
C26_LaunchStatus ==
  [][ /\ ui'.op = "start" => interview_status' = "active"
      /\ ui'.op = "backup" => interview_status' = "starting"
      /\ (interview_status' = "active" /\ interview_status # "active")
         => ui'.op = "start"
      /\ (interview_status = "starting" /\ interview_status' # "starting")
         => \/ ui'.op = "start" /\ interview_status' = "active"
            \/ ui'.op = "fetch" /\ interview_status' \in {"completed", "error"}
            \/ ui'.op = "reset" /\ interview_status' = "idle" ]_vars

\* C26 at work: a backup launch at 3 has just ended, and the status is
\* starting
C26_Witness ==
  /\ ui.op = "backup"
  /\ ui.err = <<3>>
  /\ interview_status = "starting"
  /\ interview_started_at = PyStr(<<3>>)

\* C27: the retriever does not ask for a call that has ended: when the calls
\* that survive the filter have a startedAt and no endedAt, the one chosen by
\* its updatedAt or createdAt key is fetched and shown as a completed
\* interview, and a status of starting or active becomes completed.
C27_InProgressCallCompletes ==
  [][ LET items == ServedList(net')
          S == Survivors(net', assistants', current_candidate', interview_started_at')
      IN (/\ ui'.op = "fetch"
          /\ ListingSucceeded(net')
          /\ S # {}
          /\ \A i \in S : items[i].endedAt = Missing /\ items[i].id # Missing)
         => /\ GetRequests(net') = {Len(net')}
            /\ \E i \in S :
                 /\ PyStr(RecencyKey(items[i])) \in
                      {CallGet(items[i], f) : f \in {"updatedAt", "createdAt"}}
                 /\ \A j \in S : LexGeq(RecencyKey(items[i]), RecencyKey(items[j]))
            /\ fetch_call(net'[Len(net')].resp).ok
                 => /\ ui'.out = Completed
                    /\ interview_status \in {"starting", "active"}
                         => interview_status' = "completed" ]_vars

\* C27 at work: the second agent was launched at 3, its call started at 3
\* has not ended, and the fetch has shown it and completed the session
C27_Witness ==
  /\ ui.op = "fetch"
  /\ ui.out = Completed
  /\ net[1].resp = ListOther
  /\ ListOther.body.items[1].endedAt = Missing
  /\ interview_started_at = PyStr(<<3>>)
  /\ interview_status = "completed"

\* the roll number a record carries, "" when it carries none
RollNoOf(cj) ==
  IF IsDict(cj) /\ "roll_no" \in DOMAIN cj.f /\ IsStr(cj.f["roll_no"])
  THEN cj.f["roll_no"].s ELSE ""

\* C28: the key a create-agent action writes is the roll_no of the record
\* when that is not empty, else the registration number when that is not
\* empty, else "NA"; it is never empty; and a create for a record with neither
\* roll number nor registration number lands on the key NA, replacing the
\* entry another such candidate left there.
C28_KeyChoice ==
  [][ CreateSucceeded(ui')
      => LET rn == ui'.err[1]
             expected == IF RollNoOf(candidate_json) # "" THEN RollNoOf(candidate_json)
                         ELSE IF reg_no # "" THEN reg_no
                         ELSE "NA"
         IN /\ rn = expected
            /\ rn # ""
            /\ DOMAIN assistants' = DOMAIN assistants \cup {rn}
            /\ (RollNoOf(candidate_json) = "" /\ reg_no = "")
                 => /\ rn = "NA"
                    /\ assistants'["NA"].assistant_id = net'[1].resp.body.id
                    /\ assistants'["NA"].candidate_json =
                         (IF Truthy(candidate_json) THEN candidate_json ELSE EmptyDict)
                    /\ Cardinality(DOMAIN assistants') = Cardinality(DOMAIN assistants)
                         + (IF "NA" \in DOMAIN assistants THEN 0 ELSE 1) ]_vars

\* C28 at work: the candidate extracted with an empty roll_no and no
\* registration number has been given the second agent under the key NA,
\* the only key of the map
C28_Witness ==
  /\ CreateSucceeded(ui)
  /\ ui.err = <<"NA", AgentId(2)>>
  /\ reg_no = ""
  /\ candidate_json = Obj1("roll_no", PyStr(""))
  /\ DOMAIN assistants = {"NA"}
  /\ assistants["NA"].candidate_json = candidate_json
  /\ assistants["NA"].assistant_id = AgentId(2)

Unstamped(c) == ~Present(c.startedAt)

\* C29: a listed call of the target agent without a startedAt (missing, null
\* or empty) is never retained, whatever the threshold, the epoch default of a
\* session that was never started included; so while every call of the agent
\* is without a startedAt the retriever returns no call, which the fetch shows
\* as the waiting state.
C29_UnstampedNeverRetained ==
  RetrieverRan /\ fn_out.result.ok =>
    /\ \A i \in DOMAIN fn_out.result.filtered : ~Unstamped(fn_out.result.filtered[i])
    /\ fn_out.result.v = NoCall \/ ~Unstamped(fn_out.result.v)
    /\ (\A i \in DOMAIN fn_in.items :
          fn_in.items[i].assistantId = fn_in.assistant_id => Unstamped(fn_in.items[i]))
       => fn_out.result.v = NoCall

\* C29 at work: with the epoch threshold the list holds three calls of the
\* agent, with startedAt missing, null and empty, and no call is returned
C29_Witness ==
  /\ RetrieverRan
  /\ fn_out.result.ok
  /\ fn_in.started_after = Epoch
  /\ Len(fn_in.items) = 3
  /\ fn_in.items[1].startedAt = Missing
  /\ fn_in.items[2].startedAt = PyNone
  /\ fn_in.items[3].startedAt = PyStr(<<>>)
  /\ \A i \in 1..3 : fn_in.items[i].assistantId = Target
  /\ fn_out.result.v = NoCall

\* the fetch block raised: no list was obtained, the chosen call has no id,
\* or the get-call request failed
FetchRaised(n, assts, cur, started) ==
  /\ n # <<>>
  /\ \/ ~ListingSucceeded(n)
     \/ /\ ListingSucceeded(n)
        /\ Survivors(n, assts, cur, started) # {}
        /\ \A i \in Survivors(n, assts, cur, started) : ServedList(n)[i].id = Missing
     \/ /\ GetRequests(n) # {}
        /\ ~fetch_call(n[Len(n)].resp).ok

\* C30: an exception during a fetch-feedback action, from the listing, from
\* the get-call request or from a call record without id, sets the session
\* status to error whatever it was, idle with a null timestamp included, and
\* leaves the start timestamp, the candidate record and the agent map as they
\* were.
C30_ExceptionSetsError ==
  [][ (/\ ui'.op = "fetch"
       /\ FetchRaised(net', assistants', current_candidate', interview_started_at'))
      => /\ ui'.out = FetchError
         /\ interview_status' = "error"
         /\ interview_started_at' = interview_started_at
         /\ candidate_json' = candidate_json
         /\ assistants' = assistants ]_vars

\* C30 at work: before any launch the listed call of the agent has no id,
\* and the fetch leaves error with a null timestamp
C30_Witness ==
  /\ ui.op = "fetch"
  /\ ui.out = FetchError
  /\ ui.err = <<"KeyError">>
  /\ net[1].resp = ListNoId
  /\ interview_status = "error"
  /\ interview_started_at = PyNone
====
